---- MODULE Spec2Model ----
(***************************************************************************)
(* Model of the document scanner: the DocumentCamera component            *)
(* (detection loop, stability tracker, auto-capture trigger, capture)     *)
(* together with the part of the page that consumes its captures.         *)
(*                                                                         *)
(* One action is one JavaScript task (event handler, timer callback,      *)
(* animation-frame callback) run to completion, with the React state      *)
(* updates it queues applied as one batch and the effects whose           *)
(* dependencies changed run on the committed state.  The detection cycle  *)
(* is written as two steps (CycleBegin, CycleBody) so that the            *)
(* processing flag it sets and clears is visible; no other action is      *)
(* enabled between the two.                                               *)
(***************************************************************************)
EXTENDS Integers, Sequences, FiniteSets, TLC

\* ---------------------------------------------------------------- bounds
\* Wall-clock value (ms) when the page is opened.  Date.now() is far above
\* 300, so the first good sample never counts as "within 300 ms" of the
\* initial lastGoodDetectionTime = 0.
Epoch == 1000
\* The clock stops advancing (no further frames are delivered) after this
\* many ms of scanning.
MaxElapsed == 2200
\* The same for the camera whose frames arrive slowly: long enough for ten
\* samples 300 ms apart.
SlowElapsed == 3100
\* Image loads of the upload fallback in flight at once, runs of processImage
\* that outlive their component at once, and the completions after which the
\* user no longer starts over.
MaxLoads == 2
MaxLateRuns == 1
MaxCompletions == 2
\* Gaps (ms) between two animation frames delivered to detectDocument: frames
\* arrive on a 100 ms grid, 100 or 300 ms apart, and a processed frame may be
\* followed by an early frame 50 ms later (which the interval check skips).
FrameGaps(t, lastProcessed) ==
    IF t % 100 = 0
      THEN {100, 300} \cup (IF t = lastProcessed THEN {50} ELSE {})
      ELSE {100 - (t % 100), 300 - (t % 100)}

\* Corner lists given to isConvexQuadrilateral: points with coordinates
\* 0..GridMax.
GridMax == 2
\* Widths and heights (pixels) of the images given to correctPerspective.
MaxSide == 24

\* ------------------------------------------------------ program constants
PROCESS_INTERVAL == 50
MAX_CAMERA_RETRIES == 3
GoodWindowMs == 300
ConsecutiveThreshold == 3
StableThreshold == 10
StableCap == 20
SimulatedStableCount == 15
ForgetThreshold == 3
ConsecutiveCountdownMs == 200
StableCountdownMs == 300
RetryDelayMs == 1500
VideoWidth == 640
VideoHeight == 480

\* ------------------------------------------------------------------ data
\* null, for a corner list that is absent
Null == <<>>

Pt(x, y) == [x |-> x, y |-> y]

\* 4-vertex contours approxPolyDP can yield for a frame, in contour order: a
\* page filling about a third of the frame, and a sheet seen too small.
ContourPage == <<Pt(480, 420), Pt(160, 60), Pt(480, 60), Pt(160, 420)>>
ContourSmall == <<Pt(200, 270), Pt(200, 200), Pt(250, 200), Pt(250, 270)>>
CandidateContours == {ContourPage, ContourSmall}

\* simulateDocumentDetection: a centred rectangle with A4 proportions,
\* 70% of the shorter video side (1.414 taken as 1414/1000, integer
\* division standing for the floating-point quotient).
SimulatedCorners ==
    LET centerX == VideoWidth \div 2
        centerY == VideoHeight \div 2
        docHeight == IF VideoWidth > VideoHeight
                       THEN (VideoHeight * 7) \div 10
                       ELSE (((VideoWidth * 7) \div 10) * 1414) \div 1000
        docWidth == IF VideoWidth > VideoHeight
                      THEN (docHeight * 1000) \div 1414
                      ELSE (VideoWidth * 7) \div 10
    IN << Pt(centerX - docWidth \div 2, centerY - docHeight \div 2),
          Pt(centerX + docWidth \div 2, centerY - docHeight \div 2),
          Pt(centerX + docWidth \div 2, centerY + docHeight \div 2),
          Pt(centerX - docWidth \div 2, centerY + docHeight \div 2) >>

Min(a, b) == IF a < b THEN a ELSE b
Max(a, b) == IF a > b THEN a ELSE b

\* An image behind a data URI: what it shows (kind, and for a crop the region
\* x, y of its source), its width and height, and whether the browser can
\* decode it (ok).
Img(kind, x, y, w, h, ok) == [kind |-> kind, x |-> x, y |-> y, w |-> w, h |-> h, ok |-> ok]
\* no image (null)
NoImage == Img("none", 0, 0, 0, 0, FALSE)
\* canvas.toDataURL of the video frame drawn by handleCapture
VideoFrameImage == Img("captured", 0, 0, VideoWidth, VideoHeight, TRUE)

VARIABLES
    \* page (DocumentScannerApp)
    step, useFallback, documentCorners,
    \* DocumentCamera lifecycle
    mounted,
    \* DocumentCamera React state
    isDetecting, detectedCorners, isGoodDetection, isProcessing,
    stableDetectionCount, autoCapturing, autoMode,
    cameraError, cameraStarted, mlModelLoaded, useAdvancedDetection,
    lastGoodDetectionTime, consecutiveGoodDetections, cameraInitRetries,
    \* refs
    animationFrame, lastProcessTime,
    \* tasks in flight
    openCvLoad, startAttempt, retryTimer, simulateTimers, captureTimers,
    \* position inside detectDocument and the largest 4-vertex contour of the
    \* frame it is processing, the clock, and the calls of onCapture
    cyclePc, frame, now, captures,
    \* page: the captured and the rectified image
    capturedImage, processedImage,
    \* ImageProcessing: position of processImage, its two intermediate
    \* results, and the calls of onProcessingComplete
    rectPc, croppedImage, correctedImage, completions,
    \* the drawing surface the last rectification step failed to acquire
    missingSurface,
    \* a call of one of the pure functions: its name, its argument and the
    \* value it returned (<<>> until it returns, then <<value>>)
    called, arg, ret,
    \* history of the samples: good samples since the tracker was last reset
    \* (counted up to ConsecutiveThreshold), length of the current run of good
    \* samples each less than GoodWindowMs after the one before, and the time
    \* between the sample being processed and the one before it
    goodsSinceReset, goodRun, sampleGap,
    \* page: the camera error shown; capture components: image loads of
    \* handleConfirm in flight; ImageProcessing: runs of processImage that
    \* outlived the component that started them
    pageCameraError, confirmLoads, lateRuns,
    \* the time after which no further frame is delivered
    deadline

pageVars == <<step, useFallback, documentCorners>>
trackerVars == <<detectedCorners, isGoodDetection, stableDetectionCount,
                 lastGoodDetectionTime, consecutiveGoodDetections>>
cameraVars == <<cameraError, cameraStarted, cameraInitRetries, startAttempt,
                retryTimer, simulateTimers>>
cvVars == <<mlModelLoaded, useAdvancedDetection, openCvLoad>>
pipelineVars == <<croppedImage, correctedImage, completions, missingSurface>>
rectVars == <<capturedImage, processedImage, rectPc, croppedImage, correctedImage,
              completions, missingSurface>>
kernelVars == <<called, arg, ret>>
historyVars == <<goodsSinceReset, goodRun, sampleGap>>
wizardVars == <<pageCameraError, confirmLoads, lateRuns>>
auxVars == <<historyVars, wizardVars, deadline>>

vars == <<step, useFallback, documentCorners, mounted,
          isDetecting, detectedCorners, isGoodDetection, isProcessing,
          stableDetectionCount, autoCapturing, autoMode,
          cameraError, cameraStarted, mlModelLoaded, useAdvancedDetection,
          lastGoodDetectionTime, consecutiveGoodDetections, cameraInitRetries,
          animationFrame, lastProcessTime,
          openCvLoad, startAttempt, retryTimer, simulateTimers, captureTimers,
          cyclePc, frame, now, captures,
          capturedImage, processedImage,
          rectPc, croppedImage, correctedImage, completions, missingSurface,
          called, arg, ret,
          goodsSinceReset, goodRun, sampleGap,
          pageCameraError, confirmLoads, lateRuns, deadline>>

\* ------------------------------------------------------------------ Init
\* The page before "Iniciar Digitalizacao" is pressed; the camera fields hold
\* the useState / useRef initial values.
InitScanner ==
    /\ step = "initial" /\ useFallback = FALSE /\ documentCorners = Null
    /\ mounted = FALSE
    /\ isDetecting = TRUE
    /\ detectedCorners = Null
    /\ isGoodDetection = FALSE
    /\ isProcessing = FALSE
    /\ stableDetectionCount = 0
    /\ autoCapturing = FALSE
    /\ autoMode = TRUE
    /\ cameraError = FALSE
    /\ cameraStarted = FALSE
    /\ mlModelLoaded = FALSE
    /\ useAdvancedDetection = TRUE
    /\ lastGoodDetectionTime = 0
    /\ consecutiveGoodDetections = 0
    /\ cameraInitRetries = 0
    /\ animationFrame = FALSE
    /\ lastProcessTime = 0
    /\ openCvLoad = "idle"
    /\ startAttempt = "none"
    /\ retryTimer = "none"
    /\ simulateTimers = 0
    /\ captureTimers = <<>>
    /\ cyclePc = "idle"
    /\ frame = Null
    /\ now = Epoch
    /\ goodsSinceReset = 0 /\ goodRun = 0 /\ sampleGap = 0
    /\ pageCameraError = FALSE /\ confirmLoads = <<>> /\ lateRuns = <<>>
    /\ captures = <<>>
    /\ capturedImage = NoImage /\ processedImage = NoImage
    /\ rectPc = "unmounted"
    /\ croppedImage = NoImage /\ correctedImage = NoImage
    /\ completions = <<>>
    /\ missingSurface = "none"

\* No pure function is being called.
InitApp == InitScanner /\ deadline = Epoch + MaxElapsed

Init ==
    /\ InitApp
    /\ called = "none" /\ arg = <<>> /\ ret = <<>>


\* ---------------------------------------------------- geometry (camera)
Abs(n) == IF n < 0 THEN -n ELSE n
Sign(n) == IF n > 0 THEN 1 ELSE IF n < 0 THEN -1 ELSE 0

RECURSIVE SqrtSearch(_, _, _)
SqrtSearch(n, lo, hi) ==
    IF lo >= hi THEN lo
    ELSE LET mid == (lo + hi + 1) \div 2
         IN IF mid * mid <= n THEN SqrtSearch(n, mid, hi)
                               ELSE SqrtSearch(n, lo, mid - 1)

\* floor of the square root
ISqrt(n) == SqrtSearch(n, 0, 40000)

\* Math.hypot, in tenths of a pixel (rounded down).
Hypot10(dx, dy) == ISqrt((dx * dx + dy * dy) * 100)

SumX(corners) == corners[1].x + corners[2].x + corners[3].x + corners[4].x
SumY(corners) == corners[1].y + corners[2].y + corners[3].y + corners[4].y

\* getQuadrant relative to the centre (SumX/4, SumY/4); coordinates are
\* compared after multiplying by 4 so that the centre stays integral.
getQuadrant(point, sx, sy) ==
    IF 4 * point.x < sx /\ 4 * point.y < sy THEN 0
    ELSE IF 4 * point.x >= sx /\ 4 * point.y < sy THEN 1
    ELSE IF 4 * point.x >= sx /\ 4 * point.y >= sy THEN 2
    ELSE 3

\* Squared distance from the centre, times 16 (Math.hypot is monotone in it).
CentreDist2(point, sx, sy) ==
    (4 * point.x - sx) * (4 * point.x - sx) + (4 * point.y - sy) * (4 * point.y - sy)

\* Variant: within a quadrant the nearer corner goes first.
CompareCorners_NearestFirst(a, b, sx, sy) ==
    IF getQuadrant(a, sx, sy) # getQuadrant(b, sx, sy)
      THEN getQuadrant(a, sx, sy) - getQuadrant(b, sx, sy)
      ELSE Sign(CentreDist2(a, sx, sy) - CentreDist2(b, sx, sy))

\* The comparator of sortCorners: negative when a goes before b.
CompareCorners(a, b, sx, sy) ==
    IF getQuadrant(a, sx, sy) # getQuadrant(b, sx, sy)
      THEN getQuadrant(a, sx, sy) - getQuadrant(b, sx, sy)
      ELSE Sign(CentreDist2(b, sx, sy) - CentreDist2(a, sx, sy))

\* Variant: a corner that compares equal to one already placed is dropped.
RECURSIVE InsertCorner_DropsEqual(_, _, _, _)
InsertCorner_DropsEqual(sorted, c, sx, sy) ==
    IF sorted = <<>> THEN <<c>>
    ELSE IF CompareCorners(c, sorted[1], sx, sy) < 0 THEN <<c>> \o sorted
    ELSE IF CompareCorners(c, sorted[1], sx, sy) = 0 THEN sorted
    ELSE <<sorted[1]>> \o InsertCorner_DropsEqual(Tail(sorted), c, sx, sy)

\* Variant: an element is inserted before the elements it compares equal to
\* (a sort that reverses ties).
RECURSIVE InsertCorner_BeforeEqual(_, _, _, _)
InsertCorner_BeforeEqual(sorted, c, sx, sy) ==
    IF sorted = <<>> THEN <<c>>
    ELSE IF CompareCorners(c, sorted[1], sx, sy) <= 0 THEN <<c>> \o sorted
    ELSE <<sorted[1]>> \o InsertCorner_BeforeEqual(Tail(sorted), c, sx, sy)

\* Array.prototype.sort is stable: an element is inserted after the elements
\* that do not compare greater than it.
RECURSIVE InsertCorner(_, _, _, _)
InsertCorner(sorted, c, sx, sy) ==
    IF sorted = <<>> THEN <<c>>
    ELSE IF CompareCorners(c, sorted[1], sx, sy) < 0 THEN <<c>> \o sorted
    ELSE <<sorted[1]>> \o InsertCorner(Tail(sorted), c, sx, sy)

RECURSIVE StableSortCorners(_, _, _)
StableSortCorners(corners, sx, sy) ==
    IF corners = <<>> THEN <<>>
    ELSE InsertCorner(StableSortCorners(SubSeq(corners, 1, Len(corners) - 1), sx, sy),
                      corners[Len(corners)], sx, sy)

\* sortCorners of DocumentCamera (centroid / quadrant policy)
sortCorners(corners) ==
    IF Len(corners) # 4 THEN corners
    ELSE StableSortCorners(corners, SumX(corners), SumY(corners))

\* Twice the shoelace sum of calculateQuadrilateralArea, before Math.abs.
RECURSIVE ShoelaceSum(_, _)
ShoelaceSum(corners, i) ==
    IF i > Len(corners) THEN 0
    ELSE LET j == (i % Len(corners)) + 1
         IN corners[i].x * corners[j].y - corners[j].x * corners[i].y
            + ShoelaceSum(corners, i + 1)

\* Variant: the signed sum, without Math.abs.
calculateQuadrilateralArea2_Signed(corners) == ShoelaceSum(corners, 1)

\* calculateQuadrilateralArea, doubled (the source returns Math.abs(sum) / 2).
calculateQuadrilateralArea2(corners) == Abs(ShoelaceSum(corners, 1))

\* calculateQuadrilateralDimensions, doubled and in tenths of a pixel.
calculateQuadrilateralDimensions(corners) ==
    [width |-> Hypot10(corners[2].x - corners[1].x, corners[2].y - corners[1].y)
               + Hypot10(corners[3].x - corners[4].x, corners[3].y - corners[4].y),
     height |-> Hypot10(corners[4].x - corners[1].x, corners[4].y - corners[1].y)
                + Hypot10(corners[3].x - corners[2].x, corners[3].y - corners[2].y)]

CrossAt(corners, i) ==
    LET j == (i % 4) + 1
        k == ((i + 1) % 4) + 1
        dx1 == corners[j].x - corners[i].x
        dy1 == corners[j].y - corners[i].y
        dx2 == corners[k].x - corners[j].x
        dy2 == corners[k].y - corners[j].y
    IN dx1 * dy2 - dy1 * dx2

\* Variant: only one turning direction is accepted.
isConvexQuadrilateral_PositiveOnly(corners) ==
    IF Len(corners) # 4 THEN FALSE
    ELSE \A i \in 1..4 : Sign(CrossAt(corners, i)) = 1

\* isConvexQuadrilateral
isConvexQuadrilateral(corners) ==
    IF Len(corners) # 4 THEN FALSE
    ELSE \A i \in 2..4 : Sign(CrossAt(corners, i)) = Sign(CrossAt(corners, 1))

\* |aspectRatio - num/den| < 0.3 for aspectRatio = width / height
AspectWithin(width, height, num, den) ==
    /\ height > 0
    /\ 10 * Abs(den * width - num * height) < 3 * den * height

\* Variant: the lower area limit is inclusive.
evaluateDetectionQuality_InclusiveFloor(corners) ==
    IF Len(corners) # 4 THEN FALSE
    ELSE LET screenArea == VideoWidth * VideoHeight
             area2 == calculateQuadrilateralArea2(corners)
             dims == calculateQuadrilateralDimensions(corners)
             isA4Ratio == \/ AspectWithin(dims.width, dims.height, 1000, 1414)
                          \/ AspectWithin(dims.width, dims.height, 1414, 1000)
         IN /\ 10 * area2 >= 2 * screenArea
            /\ 10 * area2 < 18 * screenArea
            /\ isA4Ratio
            /\ isConvexQuadrilateral(corners)

\* evaluateDetectionQuality
evaluateDetectionQuality(corners) ==
    IF Len(corners) # 4 THEN FALSE
    ELSE LET screenArea == VideoWidth * VideoHeight
             area2 == calculateQuadrilateralArea2(corners)
             dims == calculateQuadrilateralDimensions(corners)
             isA4Ratio == \/ AspectWithin(dims.width, dims.height, 1000, 1414)
                          \/ AspectWithin(dims.width, dims.height, 1414, 1000)
         IN /\ 10 * area2 > 2 * screenArea
            /\ 10 * area2 < 18 * screenArea
            /\ isA4Ratio
            /\ isConvexQuadrilateral(corners)

\* detectDocumentWithCV for a frame whose largest 4-vertex contour above the
\* area floor is `contour` (Null when there is none): the sorted corners.
detectDocumentWithCV(contour) ==
    IF contour = Null THEN Null ELSE sortCorners(contour)

\* ------------------------------------------------------- effects (helpers)
\* Detection-loop useEffect: its cleanup cancels the pending animation frame
\* and its body requests a new one unless one of the early returns is taken.
DetectionLoopEffect(m, det, started, adv, ml) ==
    m /\ det /\ started /\ adv /\ ml

\* Variants of the trigger: the consecutive branch compares with > instead
\* of >=; the latch on autoCapturing is not tested.
AutoCaptureTrigger_StrictThreshold(am, consecutive, stable, capturing) ==
    IF am /\ consecutive > ConsecutiveThreshold /\ ~capturing THEN "consecutive"
    ELSE IF am /\ stable >= StableThreshold /\ ~capturing THEN "stable"
    ELSE "none"

AutoCaptureTrigger_NoLatch(am, consecutive, stable, capturing) ==
    IF am /\ consecutive >= ConsecutiveThreshold THEN "consecutive"
    ELSE IF am /\ stable >= StableThreshold THEN "stable"
    ELSE "none"

\* Variant: two consecutive good samples are enough.
AutoCaptureTrigger_LowThreshold(am, consecutive, stable, capturing) ==
    IF am /\ consecutive >= ConsecutiveThreshold - 1 /\ ~capturing THEN "consecutive"
    ELSE IF am /\ stable >= StableThreshold /\ ~capturing THEN "stable"
    ELSE "none"

\* Variant: the stable branch is tested first.
AutoCaptureTrigger_StableFirst(am, consecutive, stable, capturing) ==
    IF am /\ stable >= StableThreshold /\ ~capturing THEN "stable"
    ELSE IF am /\ consecutive >= ConsecutiveThreshold /\ ~capturing THEN "consecutive"
    ELSE "none"

\* Auto-capture useEffect: which branch, if any, fires on the committed state.
AutoCaptureTrigger(am, consecutive, stable, capturing) ==
    IF am /\ consecutive >= ConsecutiveThreshold /\ ~capturing THEN "consecutive"
    ELSE IF am /\ stable >= StableThreshold /\ ~capturing THEN "stable"
    ELSE "none"

CountdownMs(trigger) ==
    IF trigger = "consecutive" THEN ConsecutiveCountdownMs ELSE StableCountdownMs

\* The auto-capture effect run on the state an action commits: it latches
\* autoCapturing and leaves a timer whose handleCapture closure holds the
\* detectedCorners of that render.
AutoCaptureEffect(am, consecutive, stable, corners) ==
    LET t == AutoCaptureTrigger(am, consecutive, stable, autoCapturing)
    IN /\ autoCapturing' = (autoCapturing \/ t # "none")
       /\ captureTimers' = IF t = "none" THEN captureTimers
                           ELSE Append(captureTimers,
                                       [delay |-> CountdownMs(t), corners |-> corners])

\* Variant of the retry effect: a retry is still armed at the maximum.
RetryEffect_Inclusive(err, retries, adv) ==
    IF err /\ retries <= MAX_CAMERA_RETRIES
      THEN (IF adv THEN "retry" ELSE "retrySimulated")
      ELSE "none"

\* Camera-retry useEffect: with an error and retries left it arms a timer
\* whose closure holds the useAdvancedDetection of that render.
RetryEffect(err, retries, adv) ==
    IF err /\ retries < MAX_CAMERA_RETRIES
      THEN (IF adv THEN "retry" ELSE "retrySimulated")
      ELSE "none"

\* ------------------------------------------------------------ page actions
\* handleStartScan, followed by the mount of a DocumentCamera: camera start
\* and the OpenCV script load are begun.
HandleStartScan ==
    /\ step = "initial"
    /\ step' = "camera"
    /\ mounted' = ~useFallback
    /\ startAttempt' = "mount"
    /\ openCvLoad' = "loading"
    /\ pageCameraError' = FALSE
    /\ cameraError' = FALSE
    /\ UNCHANGED <<rectVars, kernelVars, historyVars, confirmLoads, lateRuns, deadline,
                   useFallback, documentCorners, isDetecting,
                   trackerVars, isProcessing, autoCapturing, autoMode,
                   cameraStarted, mlModelLoaded, useAdvancedDetection,
                   cameraInitRetries, animationFrame, lastProcessTime,
                   retryTimer, simulateTimers, captureTimers, cyclePc, frame, now, captures>>

\* ------------------------------------------------------ OpenCV script load
LoadOpenCVSucceeds ==
    /\ mounted /\ cyclePc = "idle" /\ openCvLoad = "loading"
    /\ openCvLoad' = "done"
    /\ mlModelLoaded' = TRUE
    /\ animationFrame' = DetectionLoopEffect(mounted, isDetecting, cameraStarted,
                                             useAdvancedDetection, TRUE)
    /\ UNCHANGED <<rectVars, kernelVars, auxVars,
                   pageVars, mounted, isDetecting, trackerVars,
                   isProcessing, autoCapturing, autoMode, cameraVars,
                   useAdvancedDetection, lastProcessTime, captureTimers,
                   cyclePc, frame, now, captures>>

LoadOpenCVFails ==
    /\ mounted /\ cyclePc = "idle" /\ openCvLoad = "loading"
    /\ openCvLoad' = "done"
    /\ useAdvancedDetection' = FALSE
    /\ animationFrame' = FALSE
    /\ UNCHANGED <<rectVars, kernelVars, auxVars,
                   pageVars, mounted, isDetecting, trackerVars,
                   isProcessing, autoCapturing, autoMode, cameraVars,
                   mlModelLoaded, lastProcessTime, captureTimers,
                   cyclePc, frame, now, captures>>

\* --------------------------------------------------- camera start and retry
\* video.onplaying after the start made on mount.  The closure of that effect
\* was created on the first render, where useAdvancedDetection is true, so
\* no simulated detection is scheduled from here.
VideoPlaying ==
    /\ mounted /\ cyclePc = "idle" /\ startAttempt = "mount"
    /\ startAttempt' = "none"
    /\ cameraStarted' = TRUE
    /\ animationFrame' = DetectionLoopEffect(mounted, isDetecting, TRUE,
                                             useAdvancedDetection, mlModelLoaded)
    /\ UNCHANGED <<rectVars, kernelVars, auxVars,
                   pageVars, mounted, isDetecting, trackerVars,
                   isProcessing, autoCapturing, autoMode, cameraError,
                   cameraInitRetries, retryTimer, simulateTimers, cvVars,
                   lastProcessTime, captureTimers, cyclePc, frame, now, captures>>

\* Variant: the page answers a camera error by going back to the start.
PageStepAfterCameraError_ToInitial(s) == "initial"

\* handleCameraError of the page sets cameraError and useFallback and leaves
\* the step where it is ("Don't change step here").
PageStepAfterCameraError(s) == s

\* handleCameraError after a failed start: the error is stored and, when the
\* optional onError prop is supplied (onError), reported; the page answers by
\* switching to the fallback, which removes the camera.  Without onError the
\* retry effect arms its timer.
CameraStartFails(onError) ==
    /\ mounted /\ cyclePc = "idle" /\ startAttempt # "none"
    /\ startAttempt' = "none"
    /\ cameraError' = TRUE
    /\ IF onError
         THEN /\ pageCameraError' = TRUE
              /\ useFallback' = TRUE
              /\ step' = PageStepAfterCameraError(step)
              /\ mounted' = FALSE
              /\ animationFrame' = FALSE
              /\ retryTimer' = "none"
         ELSE /\ retryTimer' = RetryEffect(TRUE, cameraInitRetries, useAdvancedDetection)
              /\ UNCHANGED <<pageCameraError, useFallback, step, mounted, animationFrame>>
    /\ UNCHANGED <<rectVars, kernelVars, historyVars, confirmLoads, lateRuns, deadline,
                   documentCorners, isDetecting, trackerVars,
                   isProcessing, autoCapturing, autoMode, cameraStarted,
                   cameraInitRetries, simulateTimers, cvVars, lastProcessTime,
                   captureTimers, cyclePc, frame, now, captures>>

\* The retry timer fires, RetryDelayMs after the failed start armed it: one
\* more retry is counted, the error is cleared and the camera is started again.
RetryTimerFires ==
    /\ mounted /\ cyclePc = "idle" /\ retryTimer # "none"
    /\ now' = now + RetryDelayMs
    /\ cameraInitRetries' = cameraInitRetries + 1
    /\ cameraError' = FALSE
    /\ startAttempt' = retryTimer
    /\ retryTimer' = "none"
    /\ UNCHANGED <<rectVars, kernelVars, auxVars,
                   pageVars, mounted, isDetecting, trackerVars,
                   isProcessing, autoCapturing, autoMode, cameraStarted,
                   simulateTimers, cvVars, animationFrame, lastProcessTime,
                   captureTimers, cyclePc, frame, captures>>

\* video.onplaying after a retry; with useAdvancedDetection false in the
\* closure, a simulated detection is scheduled.
RetryVideoPlaying ==
    /\ mounted /\ cyclePc = "idle" /\ startAttempt \in {"retry", "retrySimulated"}
    /\ startAttempt' = "none"
    /\ cameraStarted' = TRUE
    /\ simulateTimers' = IF startAttempt = "retrySimulated"
                           THEN simulateTimers + 1 ELSE simulateTimers
    /\ animationFrame' = DetectionLoopEffect(mounted, isDetecting, TRUE,
                                             useAdvancedDetection, mlModelLoaded)
    /\ UNCHANGED <<rectVars, kernelVars, auxVars,
                   pageVars, mounted, isDetecting, trackerVars,
                   isProcessing, autoCapturing, autoMode, cameraError,
                   cameraInitRetries, retryTimer, cvVars, lastProcessTime,
                   captureTimers, cyclePc, frame, now, captures>>

\* simulateDocumentDetection, run by its timer.
SimulateDocumentDetection ==
    /\ cyclePc = "idle" /\ simulateTimers > 0
    /\ simulateTimers' = simulateTimers - 1
    /\ IF ~mounted
         THEN UNCHANGED <<trackerVars, autoCapturing, captureTimers>>
         ELSE /\ detectedCorners' = SimulatedCorners
              /\ isGoodDetection' = TRUE
              /\ stableDetectionCount' = SimulatedStableCount
              /\ AutoCaptureEffect(autoMode, consecutiveGoodDetections,
                                   SimulatedStableCount, SimulatedCorners)
              /\ UNCHANGED <<lastGoodDetectionTime, consecutiveGoodDetections>>
    /\ UNCHANGED <<rectVars, kernelVars, auxVars,
                   pageVars, mounted, isDetecting, isProcessing,
                   autoMode, cameraError, cameraStarted, cameraInitRetries,
                   startAttempt, retryTimer, cvVars, animationFrame,
                   lastProcessTime, cyclePc, frame, now, captures>>


\* ------------------------------------------------------- detection cycle
\* detectDocument called for a frame that is not processed: the interval has
\* not elapsed or a cycle is flagged as in progress.  Only the next frame is
\* requested.
DetectFrameSkipped(gap) ==
    /\ mounted /\ cyclePc = "idle" /\ animationFrame
    /\ gap \in FrameGaps(now, lastProcessTime)
    /\ now + gap <= deadline
    /\ now' = now + gap
    /\ ~((now' - lastProcessTime > PROCESS_INTERVAL) /\ ~isProcessing)
    /\ UNCHANGED <<rectVars, kernelVars, auxVars,
                   pageVars, mounted, isDetecting, trackerVars,
                   isProcessing, autoCapturing, autoMode, cameraVars, cvVars,
                   animationFrame, lastProcessTime, captureTimers, cyclePc, frame, captures>>

\* detectDocument up to the try block: the frame is accepted and the
\* processing flag is set.  contour is what the frame shows: its largest
\* 4-vertex contour above the area floor, Null when there is none.
CycleBegin(gap, contour) ==
    /\ mounted /\ cyclePc = "idle" /\ animationFrame
    /\ gap \in FrameGaps(now, lastProcessTime)
    /\ now + gap <= deadline
    /\ now' = now + gap
    /\ now' - lastProcessTime > PROCESS_INTERVAL
    /\ ~isProcessing
    /\ lastProcessTime' = now'
    /\ isProcessing' = TRUE
    /\ cyclePc' = "try"
    /\ frame' = contour
    /\ sampleGap' = now' - lastProcessTime
    /\ UNCHANGED <<rectVars, kernelVars, goodsSinceReset, goodRun, wizardVars, deadline,
                   pageVars, mounted, isDetecting, trackerVars,
                   autoCapturing, autoMode, cameraVars, cvVars,
                   animationFrame, captureTimers, captures>>

\* Variant: the window test uses <= instead of <.
NextConsecutiveGood_Inclusive(prev, nowMs, lastGood) ==
    IF nowMs - lastGood <= GoodWindowMs THEN prev + 1 ELSE 1

\* Variant: every good sample counts, whatever the time since the last one.
NextConsecutiveGood_NoWindow(prev, nowMs, lastGood) == prev + 1

\* setConsecutiveGoodDetections on a good sample.
NextConsecutiveGood(prev, nowMs, lastGood) ==
    IF nowMs - lastGood < GoodWindowMs THEN prev + 1 ELSE 1

\* Variants: the count is not capped; the count is not floored.
StableUp_NoCap(prev) == prev + 1
StableDown_NoFloor(prev) == prev - 1

\* setStableDetectionCount on a good sample / on a sample that is not good.
StableUp(prev) == Min(prev + 1, StableCap)
StableDown(prev) == Max(prev - 1, 0)

\* Variants: the corners are forgotten on the count after the decrement;
\* the comparison with the threshold is strict.
ForgetsCorners_AfterDecrement(stable) == stable - 1 <= ForgetThreshold
ForgetsCorners_Strict(stable) == stable < ForgetThreshold

\* Variant: every frame without a quad forgets the corners.
ForgetsCorners_Always(stable) == stable <= StableCap

\* The no-quad branch forgets the corners when the stable count of the
\* render the callback closes over is low enough.
ForgetsCorners(stable) == stable <= ForgetThreshold

\* Variant: the flag is cleared at the end of the try block, not in finally.
FlagAfterCycle_NoFinally(threw) == threw

\* finally: the processing flag after the try block, however it was left.
FlagAfterCycle(threw) == FALSE

\* The try / finally of detectDocument for the frame being processed; threw:
\* drawEnhancedView raised after the state updates were queued.  The updates
\* are committed as one batch and the auto-capture effect runs on the result.
CycleBody(threw) ==
    /\ cyclePc = "try"
    /\ cyclePc' = "idle"
    /\ frame' = Null
    /\ isProcessing' = FlagAfterCycle(threw)
    /\ \E corners \in {detectDocumentWithCV(frame)} :
       \E good \in {evaluateDetectionQuality(corners)} :
       IF corners # Null /\ Len(corners) = 4
         THEN /\ detectedCorners' = corners
              /\ isGoodDetection' = good
              /\ IF good
                   THEN /\ consecutiveGoodDetections' =
                              NextConsecutiveGood(consecutiveGoodDetections, now,
                                                  lastGoodDetectionTime)
                        /\ lastGoodDetectionTime' = now
                        /\ stableDetectionCount' = StableUp(stableDetectionCount)
                        /\ goodsSinceReset' = Min(goodsSinceReset + 1, ConsecutiveThreshold)
                        /\ goodRun' = IF goodRun >= 1 /\ sampleGap < GoodWindowMs
                                         THEN goodRun + 1 ELSE 1
                   ELSE /\ consecutiveGoodDetections' = 0
                        /\ stableDetectionCount' = StableDown(stableDetectionCount)
                        /\ goodRun' = 0
                        /\ UNCHANGED <<lastGoodDetectionTime, goodsSinceReset>>
         ELSE /\ ~threw
              /\ consecutiveGoodDetections' = 0
              /\ stableDetectionCount' = StableDown(stableDetectionCount)
              /\ IF ForgetsCorners(stableDetectionCount)
                   THEN detectedCorners' = Null /\ isGoodDetection' = FALSE
                   ELSE UNCHANGED <<detectedCorners, isGoodDetection>>
              /\ goodRun' = 0
              /\ UNCHANGED <<lastGoodDetectionTime, goodsSinceReset>>
    /\ AutoCaptureEffect(autoMode, consecutiveGoodDetections',
                         stableDetectionCount', detectedCorners')
    /\ sampleGap' = 0
    /\ UNCHANGED <<rectVars, kernelVars, wizardVars, deadline,
                   pageVars, mounted, isDetecting, autoMode,
                   cameraVars, cvVars, animationFrame, lastProcessTime, now, captures>>

\* ------------------------------------------------------ controls, capture
\* toggleAutoMode
ToggleAutoMode ==
    /\ mounted /\ cyclePc = "idle"
    /\ autoMode' = ~autoMode
    /\ stableDetectionCount' = 0
    /\ consecutiveGoodDetections' = 0
    /\ AutoCaptureEffect(autoMode', 0, 0, detectedCorners)
    /\ goodsSinceReset' = 0
    /\ UNCHANGED <<rectVars, kernelVars, goodRun, sampleGap, wizardVars, deadline,
                   pageVars, mounted, isDetecting, detectedCorners,
                   isGoodDetection, lastGoodDetectionTime, isProcessing,
                   cameraVars, cvVars, animationFrame, lastProcessTime,
                   cyclePc, frame, now, captures>>

\* Variant: the consumer keeps the camera mounted after a capture.
HandleCapture_StaysMounted(corners, surface, by) ==
    IF mounted /\ corners # Null /\ surface
      THEN /\ captures' = Append(captures, [by |-> by, corners |-> corners])
           /\ capturedImage' = VideoFrameImage
           /\ documentCorners' = corners
           /\ UNCHANGED <<step, mounted, animationFrame, rectPc>>
      ELSE UNCHANGED <<captures, capturedImage, documentCorners, step, mounted,
                       animationFrame, rectPc>>

\* handleCapture with the detectedCorners of the render it closes over;
\* surface: canvas.getContext("2d") returned a context.  A capture is handed
\* to onCapture, and the page (handleCapture of page.tsx) moves to the
\* processing step, which removes the camera and mounts ImageProcessing.
HandleCapture(corners, surface, by) ==
    IF mounted /\ corners # Null /\ surface
      THEN /\ captures' = Append(captures, [by |-> by, corners |-> corners])
           /\ capturedImage' = VideoFrameImage
           /\ documentCorners' = corners
           /\ step' = "processing"
           /\ mounted' = FALSE
           /\ animationFrame' = FALSE
           /\ rectPc' = "mounted"
      ELSE UNCHANGED <<captures, capturedImage, documentCorners, step, mounted,
                       animationFrame, rectPc>>

\* The capture button, enabled while a good detection is shown and no
\* countdown is running.
ManualCapture(surface) ==
    /\ mounted /\ cyclePc = "idle"
    /\ isGoodDetection /\ ~autoCapturing
    /\ HandleCapture(detectedCorners, surface, "manual")
    /\ UNCHANGED <<processedImage, pipelineVars, kernelVars, auxVars,
                   useFallback, isDetecting, trackerVars,
                   isProcessing, autoCapturing, autoMode, cameraVars, cvVars,
                   lastProcessTime, captureTimers, cyclePc, frame, now>>

\* A countdown timer armed by the auto-capture effect fires.
CaptureTimerFires(i, surface) ==
    /\ cyclePc = "idle"
    /\ i \in 1..Len(captureTimers)
    /\ captureTimers' = SubSeq(captureTimers, 1, i - 1)
                        \o SubSeq(captureTimers, i + 1, Len(captureTimers))
    /\ HandleCapture(captureTimers[i].corners, surface, "auto")
    /\ UNCHANGED <<processedImage, pipelineVars, kernelVars, auxVars,
                   useFallback, isDetecting, trackerVars,
                   isProcessing, autoCapturing, autoMode, cameraVars, cvVars,
                   lastProcessTime, cyclePc, frame, now>>

\* handleClose: the stream is stopped and the browser navigates back, which
\* tears the component down; the effect cleanups cancel the animation frame
\* and the retry timer.
HandleClose ==
    /\ mounted /\ cyclePc = "idle"
    /\ mounted' = FALSE
    /\ animationFrame' = FALSE
    /\ retryTimer' = "none"
    /\ UNCHANGED <<rectVars, kernelVars, auxVars,
                   pageVars, isDetecting, trackerVars,
                   isProcessing, autoCapturing, autoMode, cameraError,
                   cameraStarted, cameraInitRetries, startAttempt, simulateTimers,
                   cvVars, lastProcessTime, captureTimers, cyclePc, frame, now, captures>>

AllFrameGaps == {50, 100, 250, 300}

Next ==
    \/ HandleStartScan
    \/ LoadOpenCVSucceeds
    \/ LoadOpenCVFails
    \/ VideoPlaying
    \/ \E onError \in BOOLEAN : CameraStartFails(onError)
    \/ RetryTimerFires
    \/ RetryVideoPlaying
    \/ SimulateDocumentDetection
    \/ \E gap \in AllFrameGaps : DetectFrameSkipped(gap)
    \/ \E gap \in AllFrameGaps, contour \in CandidateContours \cup {Null} :
          CycleBegin(gap, contour)
    \/ \E threw \in BOOLEAN : CycleBody(threw)
    \/ ToggleAutoMode
    \/ \E surface \in BOOLEAN : ManualCapture(surface)
    \/ \E i \in 1..Len(captureTimers), surface \in BOOLEAN : CaptureTimerFires(i, surface)
    \/ HandleClose

Spec == Init /\ [][Next]_vars

\* The camera as page.tsx mounts it: onError is always supplied, so a camera
\* error hands over to the fallback and neither the retry timer nor the
\* simulated detection ever runs.
NextApp ==
    \/ HandleStartScan
    \/ LoadOpenCVSucceeds
    \/ LoadOpenCVFails
    \/ VideoPlaying
    \/ CameraStartFails(TRUE)
    \/ \E gap \in AllFrameGaps : DetectFrameSkipped(gap)
    \/ \E gap \in AllFrameGaps, contour \in CandidateContours \cup {Null} :
          CycleBegin(gap, contour)
    \/ \E threw \in BOOLEAN : CycleBody(threw)
    \/ ToggleAutoMode
    \/ \E surface \in BOOLEAN : ManualCapture(surface)
    \/ \E i \in 1..Len(captureTimers), surface \in BOOLEAN : CaptureTimerFires(i, surface)
    \/ HandleClose

SpecApp == Init /\ [][NextApp]_vars


\* The camera of page.tsx on a device that processes a frame every 100 or
\* 300 ms, in auto mode, watched for longer.
SlowFrameGaps == {100, 300}

InitSlow ==
    /\ InitScanner /\ deadline = Epoch + SlowElapsed
    /\ called = "none" /\ arg = <<>> /\ ret = <<>>

NextSlow ==
    \/ HandleStartScan
    \/ LoadOpenCVSucceeds
    \/ VideoPlaying
    \/ \E gap \in SlowFrameGaps, contour \in CandidateContours \cup {Null} :
          CycleBegin(gap, contour)
    \/ CycleBody(FALSE)
    \/ \E i \in 1..Len(captureTimers), surface \in BOOLEAN : CaptureTimerFires(i, surface)

SpecSlow == InitSlow /\ [][NextSlow]_vars

\* ------------------------------------------- rectification (ImageProcessing)
\* Corner lists handed over with a capture: every list of four points of a
\* small grid (any order, repeats included), and what the camera delivers.
CropXs == {50, 150, 250}
CropYs == {50, 150}
CropPoints == {Pt(x, y) : x \in CropXs, y \in CropYs}
CornerInputs ==
    [1..4 -> CropPoints]
      \cup {detectDocumentWithCV(c) : c \in CandidateContours} \cup {SimulatedCorners}

\* A data URI the browser cannot decode as an image.
UndecodableImage == Img("captured", 0, 0, 0, 0, FALSE)
SourceImages == {VideoFrameImage, UndecodableImage}

\* Array.prototype.sort((a, b) => a.x - b.x), stable.
RECURSIVE InsertByX(_, _)
InsertByX(sorted, c) ==
    IF sorted = <<>> THEN <<c>>
    ELSE IF c.x < sorted[1].x THEN <<c>> \o sorted
    ELSE <<sorted[1]>> \o InsertByX(Tail(sorted), c)

RECURSIVE SortByX(_)
SortByX(corners) ==
    IF corners = <<>> THEN <<>>
    ELSE InsertByX(SortByX(SubSeq(corners, 1, Len(corners) - 1)), corners[Len(corners)])

\* sortCorners of ImageProcessing (top / bottom split policy); y is compared
\* with the centre SumY / 4 after multiplying by 4.
ImageProcessing_sortCorners(corners) ==
    IF Len(corners) # 4 THEN corners
    ELSE LET sy == SumY(corners)
             topSorted == SortByX(SelectSeq(corners, LAMBDA c : 4 * c.y < sy))
             bottomSorted == SortByX(SelectSeq(corners, LAMBDA c : 4 * c.y >= sy))
             sortedCorners ==
                 (IF Len(topSorted) > 0 THEN <<topSorted[1]>> ELSE <<>>)
                 \o (IF Len(topSorted) > 1 THEN <<topSorted[Len(topSorted)]>> ELSE <<>>)
                 \o (IF Len(bottomSorted) > 0
                       THEN <<bottomSorted[Len(bottomSorted)]>> ELSE <<>>)
                 \o (IF Len(bottomSorted) > 1 THEN <<bottomSorted[1]>> ELSE <<>>)
         IN IF Len(sortedCorners) = 4 THEN sortedCorners ELSE corners

\* Variant: only lists shorter than 4 are returned as they are; the centre
\* of a longer list is taken over its first four points.
Utils_sortCorners_ShortOnly(corners) ==
    IF Len(corners) < 4 THEN corners
    ELSE LET sy == SumY(corners)
             topSorted == SortByX(SelectSeq(corners, LAMBDA c : 4 * c.y < sy))
             bottomSorted == SortByX(SelectSeq(corners, LAMBDA c : 4 * c.y >= sy))
         IN (IF Len(topSorted) > 0 THEN <<topSorted[1]>> ELSE <<>>)
            \o (IF Len(topSorted) > 1 THEN <<topSorted[Len(topSorted)]>> ELSE <<>>)
            \o (IF Len(bottomSorted) > 0
                  THEN <<bottomSorted[Len(bottomSorted)]>> ELSE <<>>)
            \o (IF Len(bottomSorted) > 1 THEN <<bottomSorted[1]>> ELSE <<>>)

\* sortCorners exported by the detection utilities (top / bottom split
\* policy): the assembled list is returned whatever its length.
Utils_sortCorners(corners) ==
    IF Len(corners) # 4 THEN corners
    ELSE LET sy == SumY(corners)
             topSorted == SortByX(SelectSeq(corners, LAMBDA c : 4 * c.y < sy))
             bottomSorted == SortByX(SelectSeq(corners, LAMBDA c : 4 * c.y >= sy))
         IN (IF Len(topSorted) > 0 THEN <<topSorted[1]>> ELSE <<>>)
            \o (IF Len(topSorted) > 1 THEN <<topSorted[Len(topSorted)]>> ELSE <<>>)
            \o (IF Len(bottomSorted) > 0
                  THEN <<bottomSorted[Len(bottomSorted)]>> ELSE <<>>)
            \o (IF Len(bottomSorted) > 1 THEN <<bottomSorted[1]>> ELSE <<>>)

\* Math.min(...) / Math.max(...) over a non-empty list of numbers
RECURSIVE MinOf(_)
MinOf(ns) == IF Len(ns) = 1 THEN ns[1] ELSE Min(ns[1], MinOf(Tail(ns)))
RECURSIVE MaxOf(_)
MaxOf(ns) == IF Len(ns) = 1 THEN ns[1] ELSE Max(ns[1], MaxOf(Tail(ns)))

Xs(corners) == [i \in 1..Len(corners) |-> corners[i].x]
Ys(corners) == [i \in 1..Len(corners) |-> corners[i].y]

\* Variant: the crop is measured from the corner sorted first (top-left)
\* along the top and the left edge.
CropResult_FromTopLeft(original, corners, missing) ==
    IF missing # "none" THEN original
    ELSE LET sortedCorners == ImageProcessing_sortCorners(corners)
             cropWidth == sortedCorners[2].x - sortedCorners[1].x
             cropHeight == sortedCorners[4].y - sortedCorners[1].y
         IN Img("cropped", sortedCorners[1].x, sortedCorners[1].y, cropWidth, cropHeight,
                cropWidth > 0 /\ cropHeight > 0)

\* img.onload of cropDocumentExactly: what the promise resolves to.  missing
\* names the surface that could not be acquired ("canvas": canvasRef.current,
\* "ctx": its 2d context, "tempCtx": the context of the temporary canvas).
\* A canvas of zero width or height yields a data URI that does not decode.
CropResult(original, corners, missing) ==
    IF missing # "none" THEN original
    ELSE LET sortedCorners == ImageProcessing_sortCorners(corners)
             minX == MinOf(Xs(sortedCorners))
             minY == MinOf(Ys(sortedCorners))
             maxX == MaxOf(Xs(sortedCorners))
             maxY == MaxOf(Ys(sortedCorners))
             cropWidth == maxX - minX
             cropHeight == maxY - minY
         IN Img("cropped", minX, minY, cropWidth, cropHeight,
                cropWidth > 0 /\ cropHeight > 0)

OUTPUT_SIDE == 1240

\* Variant: the quotient is truncated.
MathRound_Floor(num, den) == {num \div den}

\* Math.round(num / den) for positive integers, the quotient computed in
\* floating point: the nearest integer; when the exact quotient lies halfway
\* between two integers the floating-point error decides between them.
MathRound(num, den) ==
    LET k == (2 * num + den) \div (2 * den)
    IN IF (2 * num + den) % (2 * den) = 0 THEN {k - 1, k} ELSE {k}

\* Variant: the longer side is the one fixed at 1240.
OutputDimensions_LongSide(w, h) ==
    IF h > w
      THEN {[width |-> k, height |-> OUTPUT_SIDE] : k \in MathRound(OUTPUT_SIDE * w, h)}
      ELSE {[width |-> OUTPUT_SIDE, height |-> k] : k \in MathRound(OUTPUT_SIDE * h, w)}

\* correctPerspective: the possible output canvas sizes for a w x h image.
OutputDimensions(w, h) ==
    IF h > w
      THEN {[width |-> OUTPUT_SIDE, height |-> k] : k \in MathRound(OUTPUT_SIDE * h, w)}
      ELSE {[width |-> k, height |-> OUTPUT_SIDE] : k \in MathRound(OUTPUT_SIDE * w, h)}

\* Variant: without a drawing surface nothing is resolved.
PerspectiveResult_NoFallback(cropped, dims, missing) ==
    IF missing # "none" THEN NoImage
    ELSE Img("normalized", 0, 0, dims.width, dims.height, TRUE)

\* img.onload of correctPerspective: what the promise resolves to.  missing
\* is "canvas" (outputCanvasRef.current), "ctx" (its 2d context) or "none".
PerspectiveResult(cropped, dims, missing) ==
    IF missing # "none" THEN cropped
    ELSE Img("normalized", 0, 0, dims.width, dims.height, TRUE)

\* handleCapture of the page, called by a capture component (the camera or
\* the upload fallback) with an image and four corners: the page moves to
\* the processing step, which mounts ImageProcessing.
OnCapture(image, corners) ==
    /\ step = "camera"
    /\ capturedImage' = image
    /\ documentCorners' = corners
    /\ step' = "processing"
    /\ mounted' = FALSE
    /\ animationFrame' = FALSE
    /\ rectPc' = "mounted"
    /\ UNCHANGED <<useFallback, isDetecting, trackerVars, isProcessing, autoCapturing,
                   autoMode, cameraVars, cvVars, lastProcessTime, captureTimers,
                   cyclePc, frame, now, captures, processedImage, pipelineVars,
                   kernelVars, auxVars>>

\* Variant: the step is moved without storing the image.
OnProcessingComplete_StepOnly(image) ==
    /\ completions' = Append(completions, image)
    /\ processedImage' = processedImage
    /\ step' = "preview"

\* onProcessingComplete as the page implements it (handleProcessingComplete).
OnProcessingComplete(image) ==
    /\ completions' = Append(completions, image)
    /\ processedImage' = image
    /\ step' = "preview"

\* The effect of ImageProcessing: processImage runs up to its first await;
\* raises: a statement of the try block throws, which the catch answers by
\* delivering the original image.
ProcessImageStart(raises) ==
    /\ rectPc = "mounted"
    /\ IF raises
         THEN /\ OnProcessingComplete(capturedImage)
              /\ rectPc' = "done"
         ELSE /\ rectPc' = "cropLoading"
              /\ UNCHANGED <<completions, processedImage, step>>
    /\ UNCHANGED <<useFallback, documentCorners, mounted, isDetecting, trackerVars,
                   isProcessing, autoCapturing, autoMode, cameraVars, cvVars,
                   animationFrame, lastProcessTime, captureTimers, cyclePc, frame, now,
                   captures, capturedImage, croppedImage, correctedImage,
                   missingSurface, kernelVars, auxVars>>

\* img.onload of cropDocumentExactly, and processImage up to its second
\* await (raises: as above).
CropImageLoaded(missing, raises) ==
    /\ rectPc = "cropLoading" /\ capturedImage.ok
    /\ missingSurface' = missing
    /\ croppedImage' = CropResult(capturedImage, documentCorners, missing)
    /\ IF raises
         THEN /\ OnProcessingComplete(capturedImage)
              /\ rectPc' = "done"
         ELSE /\ rectPc' = "perspectiveLoading"
              /\ UNCHANGED <<completions, processedImage, step>>
    /\ UNCHANGED <<useFallback, documentCorners, mounted, isDetecting, trackerVars,
                   isProcessing, autoCapturing, autoMode, cameraVars, cvVars,
                   animationFrame, lastProcessTime, captureTimers, cyclePc, frame, now,
                   captures, capturedImage, correctedImage, kernelVars, auxVars>>

\* The image given to a step does not decode: its error event has no
\* handler, the promise is never settled and processImage stays suspended.
ImageLoadFails ==
    /\ \/ rectPc = "cropLoading" /\ ~capturedImage.ok
       \/ rectPc = "perspectiveLoading" /\ ~croppedImage.ok
    /\ rectPc' = "suspended"
    /\ UNCHANGED <<pageVars, mounted, isDetecting, trackerVars, isProcessing,
                   autoCapturing, autoMode, cameraVars, cvVars, animationFrame,
                   lastProcessTime, captureTimers, cyclePc, frame, now, captures,
                   capturedImage, processedImage, pipelineVars, kernelVars, auxVars>>

\* img.onload of correctPerspective, and processImage up to the timer that
\* will deliver the result.
PerspectiveImageLoaded(missing) ==
    /\ rectPc = "perspectiveLoading" /\ croppedImage.ok
    /\ missingSurface' = missing
    /\ \E dims \in OutputDimensions(croppedImage.w, croppedImage.h) :
          correctedImage' = PerspectiveResult(croppedImage, dims, missing)
    /\ rectPc' = "completeTimer"
    /\ UNCHANGED <<pageVars, mounted, isDetecting, trackerVars, isProcessing,
                   autoCapturing, autoMode, cameraVars, cvVars, animationFrame,
                   lastProcessTime, captureTimers, cyclePc, frame, now, captures,
                   capturedImage, processedImage, croppedImage, completions,
                   kernelVars, auxVars>>

\* The 100 ms timer set at the end of processImage fires.
CompleteTimerFires ==
    /\ rectPc = "completeTimer"
    /\ OnProcessingComplete(correctedImage)
    /\ rectPc' = "done"
    /\ UNCHANGED <<useFallback, documentCorners, mounted, isDetecting, trackerVars,
                   isProcessing, autoCapturing, autoMode, cameraVars, cvVars,
                   animationFrame, lastProcessTime, captureTimers, cyclePc, frame, now,
                   captures, capturedImage, croppedImage, correctedImage,
                   missingSurface, kernelVars, auxVars>>

CropSurfaces == {"none", "canvas", "ctx", "tempCtx"}
OutputSurfaces == {"none", "canvas", "ctx"}

\* The page from the start of a scan to the preview, with the capture as an
\* input.
NextRect ==
    \/ HandleStartScan
    \/ \E image \in SourceImages, corners \in CornerInputs : OnCapture(image, corners)
    \/ \E raises \in BOOLEAN : ProcessImageStart(raises)
    \/ \E missing \in CropSurfaces, raises \in BOOLEAN : CropImageLoaded(missing, raises)
    \/ ImageLoadFails
    \/ \E missing \in OutputSurfaces : PerspectiveImageLoaded(missing)
    \/ CompleteTimerFires

SpecRect == Init /\ [][NextRect]_vars


\* ------------------------------------------------ the wizard (page.tsx)
\* Images the user picks in the upload fallback.
UploadImages == {Img("uploaded", 0, 0, 400, 200, TRUE)}

\* handleConfirm: a centred rectangle of 70% of the image.
FallbackCorners(image) ==
    LET left == (3 * image.w) \div 20
        top == (3 * image.h) \div 20
        right == left + (7 * image.w) \div 10
        bottom == top + (7 * image.h) \div 10
    IN <<Pt(left, top), Pt(right, top), Pt(right, bottom), Pt(left, bottom)>>

\* A run of processImage that has passed its first await and not delivered.
RunInFlight == rectPc \in {"cropLoading", "perspectiveLoading", "completeTimer"}

\* The cleanup of ImageProcessing's effect clears only the slow-processing
\* timer: a run whose component is removed, or whose effect is run again,
\* goes on with the values it holds.
AbandonRun ==
    /\ RunInFlight => Len(lateRuns) < MaxLateRuns
    /\ lateRuns' = IF RunInFlight
                      THEN Append(lateRuns, [pc |-> rectPc, image |-> capturedImage,
                                             corners |-> documentCorners,
                                             cropped |-> croppedImage,
                                             corrected |-> correctedImage])
                      ELSE lateRuns

\* handleConfirm of the upload fallback: the chosen image starts to load.
FallbackConfirm(image) ==
    /\ step = "camera" /\ useFallback
    /\ Len(confirmLoads) < MaxLoads
    /\ confirmLoads' = Append(confirmLoads, image)
    /\ UNCHANGED <<pageVars, mounted, isDetecting, trackerVars, isProcessing,
                   autoCapturing, autoMode, cameraVars, cvVars, animationFrame,
                   lastProcessTime, captureTimers, cyclePc, frame, now, captures,
                   rectVars, kernelVars, historyVars, pageCameraError, lateRuns,
                   deadline>>

\* img.onload of handleConfirm calls onCapture, whatever the page shows by
\* then: handleCapture of the page stores the image and the corners, moves to
\* the processing step, and ImageProcessing runs processImage on them.
FallbackImageLoaded(i) ==
    /\ i \in 1..Len(confirmLoads)
    /\ confirmLoads' = SubSeq(confirmLoads, 1, i - 1)
                       \o SubSeq(confirmLoads, i + 1, Len(confirmLoads))
    /\ capturedImage' = confirmLoads[i]
    /\ documentCorners' = FallbackCorners(confirmLoads[i])
    /\ step' = "processing"
    /\ mounted' = FALSE
    /\ animationFrame' = FALSE
    /\ AbandonRun
    /\ rectPc' = "mounted"
    /\ UNCHANGED <<useFallback, isDetecting, trackerVars, isProcessing, autoCapturing,
                   autoMode, cameraVars, cvVars, lastProcessTime, captureTimers,
                   cyclePc, frame, now, captures, processedImage, pipelineVars,
                   kernelVars, historyVars, pageCameraError, deadline>>

\* handleFallbackCancel
HandleFallbackCancel ==
    /\ step = "camera" /\ useFallback
    /\ useFallback' = FALSE
    /\ step' = "initial"
    /\ UNCHANGED <<documentCorners, mounted, isDetecting, trackerVars, isProcessing,
                   autoCapturing, autoMode, cameraVars, cvVars, animationFrame,
                   lastProcessTime, captureTimers, cyclePc, frame, now, captures,
                   rectVars, kernelVars, auxVars>>

\* handleReset, from the preview.
HandleReset ==
    /\ step = "preview"
    /\ Len(completions) < MaxCompletions
    /\ capturedImage' = NoImage
    /\ processedImage' = NoImage
    /\ documentCorners' = Null
    /\ useFallback' = FALSE
    /\ pageCameraError' = FALSE
    /\ step' = "initial"
    /\ AbandonRun
    /\ rectPc' = "unmounted"
    /\ UNCHANGED <<mounted, isDetecting, trackerVars, isProcessing, autoCapturing,
                   autoMode, cameraVars, cvVars, animationFrame, lastProcessTime,
                   captureTimers, cyclePc, frame, now, captures, pipelineVars,
                   kernelVars, historyVars, confirmLoads, deadline>>

\* A run that outlived its component takes its next step, as the run of the
\* mounted component does (CropImageLoaded, PerspectiveImageLoaded,
\* CompleteTimerFires), and delivers to handleProcessingComplete.
LateRunAdvances(i, missing, raises) ==
    /\ i \in 1..Len(lateRuns)
    /\ LET run == lateRuns[i]
           others == SubSeq(lateRuns, 1, i - 1) \o SubSeq(lateRuns, i + 1, Len(lateRuns))
       IN \/ /\ run.pc = "cropLoading" /\ run.image.ok /\ missing \in CropSurfaces
             /\ IF raises
                  THEN /\ OnProcessingComplete(run.image)
                       /\ lateRuns' = others
                  ELSE /\ lateRuns' = [lateRuns EXCEPT ![i] =
                              [run EXCEPT !.pc = "perspectiveLoading",
                                          !.cropped = CropResult(run.image, run.corners,
                                                                 missing)]]
                       /\ UNCHANGED <<completions, processedImage, step>>
          \/ /\ run.pc = "perspectiveLoading" /\ run.cropped.ok /\ ~raises
             /\ missing \in OutputSurfaces
             /\ \E dims \in OutputDimensions(run.cropped.w, run.cropped.h) :
                   lateRuns' = [lateRuns EXCEPT ![i] =
                       [run EXCEPT !.pc = "completeTimer",
                                   !.corrected = PerspectiveResult(run.cropped, dims,
                                                                   missing)]]
             /\ UNCHANGED <<completions, processedImage, step>>
          \/ /\ run.pc = "completeTimer" /\ ~raises /\ missing = "none"
             /\ OnProcessingComplete(run.corrected)
             /\ lateRuns' = others
    /\ UNCHANGED <<useFallback, documentCorners, mounted, isDetecting, trackerVars,
                   isProcessing, autoCapturing, autoMode, cameraVars, cvVars,
                   animationFrame, lastProcessTime, captureTimers, cyclePc, frame, now,
                   captures, capturedImage, rectPc, croppedImage, correctedImage,
                   missingSurface, kernelVars, historyVars, pageCameraError,
                   confirmLoads, deadline>>

\* Drawing surfaces as the wizard's runs find them: all there, or no context.
PageSurfaces == {"none", "ctx"}

\* The page with its capture components and ImageProcessing, the callbacks
\* arriving in any order.
NextPage ==
    \/ HandleStartScan
    \/ CameraStartFails(TRUE)
    \/ \E image \in SourceImages : OnCapture(image, SimulatedCorners)
    \/ \E image \in UploadImages : FallbackConfirm(image)
    \/ \E i \in 1..Len(confirmLoads) : FallbackImageLoaded(i)
    \/ HandleFallbackCancel
    \/ \E raises \in BOOLEAN : ProcessImageStart(raises)
    \/ \E missing \in PageSurfaces, raises \in BOOLEAN : CropImageLoaded(missing, raises)
    \/ ImageLoadFails
    \/ \E missing \in PageSurfaces : PerspectiveImageLoaded(missing)
    \/ CompleteTimerFires
    \/ \E i \in 1..Len(lateRuns), missing \in PageSurfaces, raises \in BOOLEAN :
          LateRunAdvances(i, missing, raises)
    \/ HandleReset

SpecPage == Init /\ [][NextPage]_vars

\* ------------------------------------------------- calls of pure functions
\* Everything but the record of the call.
appVars == <<pageVars, mounted, isDetecting, trackerVars, isProcessing, autoCapturing,
             autoMode, cameraVars, cvVars, animationFrame, lastProcessTime,
             captureTimers, cyclePc, frame, now, captures, rectVars, auxVars>>

GridPoints == {Pt(x, y) : x \in 0..GridMax, y \in 0..GridMax}
GridQuads == [1..4 -> GridPoints]

\* Corner lists given to evaluateDetectionQuality: four points of the frame
\* in any order, and lists that are not 4 points long.
FramePoints == {Pt(x, y) : x \in {0, 160, 420, 640}, y \in {0, 192, 400, 432}}
FrameQuads ==
    [1..4 -> FramePoints]
      \cup {<<>>, SubSeq(ContourPage, 1, 3), ContourPage \o <<Pt(320, 240)>>}

\* Contours of a frame as findContours / approxPolyDP report them:
\* contourArea and the approximated polygon (3, 4 or 5 vertices).
ContourAreas == {6000, 6144, 6145, 100000}
ApproxPolygons ==
    {SubSeq(ContourPage, 1, 3), ContourPage, ContourSmall, ContourPage \o <<Pt(320, 240)>>}
Contours == {[area |-> a, approx |-> q] : a \in ContourAreas, q \in ApproxPolygons}
ContourLists == {<<>>} \cup [1..1 -> Contours] \cup [1..2 -> Contours] \cup [1..3 -> Contours]

\* Variant: a contour of exactly the minimum area passes the filter.
AboveAreaFloor_Inclusive(area) == 100 * area >= 2 * VideoWidth * VideoHeight

\* area > minArea, with minArea = canvas.width * canvas.height * 0.02
AboveAreaFloor(area) == 100 * area > 2 * VideoWidth * VideoHeight

\* The loop of detectDocumentWithCV over the contours: the index of the
\* contour kept (maxContourIndex, counted from 1; 0 for -1).
RECURSIVE ScanContours(_, _, _, _)
ScanContours(contours, i, maxArea, maxContourIndex) ==
    IF i > Len(contours) THEN maxContourIndex
    ELSE IF /\ AboveAreaFloor(contours[i].area)
            /\ Len(contours[i].approx) = 4
            /\ contours[i].area > maxArea
      THEN ScanContours(contours, i + 1, contours[i].area, i)
      ELSE ScanContours(contours, i + 1, maxArea, maxContourIndex)

\* detectDocumentWithCV from the contours on: the contour selected and the
\* corners returned (Null when none is selected).
SelectDocument(contours) ==
    LET maxContourIndex == ScanContours(contours, 1, 0, 0)
    IN [index |-> maxContourIndex,
        corners |-> IF maxContourIndex = 0 THEN Null
                    ELSE detectDocumentWithCV(contours[maxContourIndex].approx)]

\* The functions called and the arguments each is called with.
KernelInputs(fn) ==
    CASE fn = "isConvexQuadrilateral" -> GridQuads
      [] fn = "evaluateDetectionQuality" -> FrameQuads
      [] fn = "detectDocumentWithCV" -> ContourLists
      [] fn = "correctPerspective" -> (1..MaxSide) \X (1..MaxSide)
KernelFunctions ==
    {"isConvexQuadrilateral", "evaluateDetectionQuality", "detectDocumentWithCV",
     "correctPerspective"}

\* A function is about to be called with one of its arguments.
InitKernel ==
    /\ InitApp
    /\ called \in KernelFunctions
    /\ arg \in KernelInputs(called)
    /\ ret = <<>>

CallIsConvex ==
    /\ called = "isConvexQuadrilateral" /\ ret = <<>>
    /\ ret' = <<isConvexQuadrilateral(arg)>>
    /\ UNCHANGED <<appVars, called, arg>>

CallEvaluateDetectionQuality ==
    /\ called = "evaluateDetectionQuality" /\ ret = <<>>
    /\ ret' = <<evaluateDetectionQuality(arg)>>
    /\ UNCHANGED <<appVars, called, arg>>

CallSelectDocument ==
    /\ called = "detectDocumentWithCV" /\ ret = <<>>
    /\ ret' = <<SelectDocument(arg)>>
    /\ UNCHANGED <<appVars, called, arg>>

\* correctPerspective for an image of width arg[1] and height arg[2]
CallOutputDimensions ==
    /\ called = "correctPerspective" /\ ret = <<>>
    /\ \E dims \in OutputDimensions(arg[1], arg[2]) : ret' = <<dims>>
    /\ UNCHANGED <<appVars, called, arg>>

NextKernel ==
    \/ CallIsConvex
    \/ CallEvaluateDetectionQuality
    \/ CallSelectDocument
    \/ CallOutputDimensions

SpecKernel == InitKernel /\ [][NextKernel]_vars


\* ------------------------------------- calls of corner ordering and area
\* Corner lists given to the three sortCorners: four grid points in any
\* order (repeated points included) and lists of 0, 3 and 5 points.
OtherLengthLists ==
    {<<>>} \cup [1..3 -> {Pt(0, 0), Pt(2, 1), Pt(1, 2)}]
           \cup [1..5 -> {Pt(0, 0), Pt(2, 1)}]
CornerLists == GridQuads \cup OtherLengthLists

OrderInputs(fn) ==
    CASE fn = "sortCorners" -> CornerLists
      [] fn = "ImageProcessing.sortCorners" -> CornerLists
      [] fn = "utils.sortCorners" -> CornerLists
      [] fn = "calculateQuadrilateralArea" -> GridQuads
OrderFunctions ==
    {"sortCorners", "ImageProcessing.sortCorners", "utils.sortCorners",
     "calculateQuadrilateralArea"}

\* A function is about to be called with one of its arguments.
InitOrder ==
    /\ InitApp
    /\ called \in OrderFunctions
    /\ arg \in OrderInputs(called)
    /\ ret = <<>>

\* sortCorners of DocumentCamera
CallSortCorners ==
    /\ called = "sortCorners" /\ ret = <<>>
    /\ ret' = <<sortCorners(arg)>>
    /\ UNCHANGED <<appVars, called, arg>>

\* sortCorners of ImageProcessing
CallImageProcessingSortCorners ==
    /\ called = "ImageProcessing.sortCorners" /\ ret = <<>>
    /\ ret' = <<ImageProcessing_sortCorners(arg)>>
    /\ UNCHANGED <<appVars, called, arg>>

\* sortCorners exported by the detection utilities
CallUtilsSortCorners ==
    /\ called = "utils.sortCorners" /\ ret = <<>>
    /\ ret' = <<Utils_sortCorners(arg)>>
    /\ UNCHANGED <<appVars, called, arg>>

\* calculateQuadrilateralArea; the result recorded is twice the area.
CallCalculateQuadrilateralArea ==
    /\ called = "calculateQuadrilateralArea" /\ ret = <<>>
    /\ ret' = <<calculateQuadrilateralArea2(arg)>>
    /\ UNCHANGED <<appVars, called, arg>>

NextOrder ==
    \/ CallSortCorners
    \/ CallImageProcessingSortCorners
    \/ CallUtilsSortCorners
    \/ CallCalculateQuadrilateralArea

SpecOrder == InitOrder /\ [][NextOrder]_vars


\* ======================================================== properties
\* The step that ends a detection cycle, and what its frame showed.
CycleEnds == cyclePc = "try" /\ cyclePc' = "idle"
FrameHasQuad == frame # Null /\ Len(detectDocumentWithCV(frame)) = 4
FrameIsGood == FrameHasQuad /\ evaluateDetectionQuality(detectDocumentWithCV(frame))
ThresholdMet == consecutiveGoodDetections >= 3 \/ stableDetectionCount >= 10
TimerArmed == Len(captureTimers') = Len(captureTimers) + 1

\* C1: with auto mode on, no committed state has a threshold met
\* (consecutiveGoodDetections >= 3 or stableDetectionCount >= 10) without the
\* trigger having fired; the trigger (autoCapturing false -> true) fires only
\* into a state with auto mode on and a threshold met, and arms one timer.
C1_TriggerIffThreshold ==
    /\ [](autoMode /\ ThresholdMet => autoCapturing)
    /\ [][(~autoCapturing /\ autoCapturing')
            => (autoMode' /\ ThresholdMet' /\ TimerArmed)]_vars
    /\ [][TimerArmed => (~autoCapturing /\ autoCapturing')]_vars

C1_Witness ==
    /\ mounted /\ autoMode /\ autoCapturing
    /\ consecutiveGoodDetections = 3 /\ stableDetectionCount < 10
    /\ Len(captureTimers) = 1

\* C2: the third of three good samples less than 300 ms apart brings the
\* consecutive count to 3 and fires the trigger; once autoCapturing is set it
\* stays set and no further timer is armed, so at most one timer is ever
\* pending and at most one capture is delivered.
C2_FiresExactlyOnce ==
    /\ [][(CycleEnds /\ FrameIsGood /\ autoMode /\ ~autoCapturing
             /\ consecutiveGoodDetections = 2
             /\ now - lastGoodDetectionTime < 300)
            => (consecutiveGoodDetections' = 3 /\ autoCapturing' /\ TimerArmed)]_vars
    /\ [][autoCapturing
            => (autoCapturing' /\ Len(captureTimers') <= Len(captureTimers))]_vars
    /\ [](Len(captureTimers) <= 1 /\ Len(captures) <= 1)

C2_Witness ==
    /\ mounted /\ autoMode /\ autoCapturing
    /\ consecutiveGoodDetections >= 5
    /\ Len(captureTimers) = 1 /\ captureTimers[1].delay = 200
    /\ captures = <<>>

\* C3: a cycle whose sample is good adds 1 to consecutiveGoodDetections when
\* now - lastGoodDetectionTime < 300 and sets it to 1 otherwise, and sets
\* lastGoodDetectionTime to now.
C3_GoodSample ==
    [][(CycleEnds /\ FrameIsGood)
         => /\ lastGoodDetectionTime' = now
            /\ (now - lastGoodDetectionTime < 300
                  => consecutiveGoodDetections' = consecutiveGoodDetections + 1)
            /\ (now - lastGoodDetectionTime >= 300
                  => consecutiveGoodDetections' = 1)]_vars

\* a good sample counted as 1 although earlier samples were good
C3_Witness ==
    /\ cyclePc = "idle" /\ lastGoodDetectionTime = now
    /\ consecutiveGoodDetections = 1 /\ stableDetectionCount >= 4

\* C4: a cycle whose sample is not good (a quad that fails the quality check,
\* or no quad) sets consecutiveGoodDetections to 0 and lowers
\* stableDetectionCount by 1, not below 0.
C4_NotGoodSample ==
    [][(CycleEnds /\ ~FrameIsGood)
         => /\ consecutiveGoodDetections' = 0
            /\ stableDetectionCount' =
                 (IF stableDetectionCount >= 1 THEN stableDetectionCount - 1 ELSE 0)]_vars

\* a failing quad was just processed with the count already at 0
C4_Witness ==
    /\ cyclePc = "idle" /\ lastProcessTime = now /\ now > Epoch
    /\ detectedCorners = detectDocumentWithCV(ContourSmall) /\ ~isGoodDetection
    /\ stableDetectionCount = 0 /\ consecutiveGoodDetections = 0
    /\ lastGoodDetectionTime = 0

\* C5: stableDetectionCount is an integer between 0 and 20 in every state.
C5_StableRange ==
    stableDetectionCount \in 0..20

\* more than 20 good samples in a row have been counted
C5_Witness ==
    stableDetectionCount = 20 /\ consecutiveGoodDetections >= 21

\* C6: every reset event (capture mode changed, capture delivered) leaves
\* stableDetectionCount = 0, consecutiveGoodDetections = 0 and autoCapturing
\* false.
C6_ResetClearsTracker ==
    [][(autoMode' # autoMode \/ Len(captures') > Len(captures))
         => (stableDetectionCount' = 0 /\ consecutiveGoodDetections' = 0
             /\ ~autoCapturing')]_vars

\* C7: once detection is stopped (auto mode off, or the camera torn down) no
\* animation frame remains scheduled after teardown and no auto-capture
\* countdown remains pending.
C7_StopCancelsPending ==
    /\ (~mounted => ~animationFrame)
    /\ ((~mounted \/ ~autoMode) => captureTimers = <<>>)

\* C8: a cycle starts only with the processing flag clear and sets it; the
\* flag is set exactly while a cycle is in progress, so it is clear whenever
\* no cycle is running, also after a cycle that raised.
C8_SingleFlight ==
    /\ [](isProcessing <=> cyclePc = "try")
    /\ [][(cyclePc = "idle" /\ cyclePc' = "try")
            => (~isProcessing /\ isProcessing')]_vars
    /\ [][CycleEnds => ~isProcessing']_vars

\* a cycle has run and ended
C8_Witness ==
    /\ cyclePc = "idle" /\ ~isProcessing
    /\ lastProcessTime = now /\ now > Epoch

\* C9: the manual button and the countdown timer both end in handleCapture;
\* a countdown is pending only while the button is disabled, and a camera
\* delivers at most one capture: the first delivery ends the session.
C9_OneCapture ==
    /\ [](Len(captures) <= 1)
    /\ [](captureTimers # <<>> => autoCapturing)
    /\ [][Len(captures') > Len(captures)
            => (captures = <<>> /\ Len(captures') = 1 /\ mounted /\ ~mounted'
                /\ step' = "processing")]_vars

\* a manual capture taken in auto mode, before the trigger fired
C9_Witness ==
    /\ Len(captures) = 1 /\ captures[1].by = "manual"
    /\ autoMode /\ ~autoCapturing /\ stableDetectionCount >= 1

\* C10: a cycle whose frame has no quad forgets the corners (detectedCorners
\* null, isGoodDetection false) when stableDetectionCount, before the
\* decrement, is <= 3, and leaves both as they were when it is > 3.
C10_ForgetOrRetain ==
    [][(CycleEnds /\ ~FrameHasQuad)
         => IF stableDetectionCount <= 3
              THEN detectedCorners' = Null /\ ~isGoodDetection'
              ELSE /\ detectedCorners' = detectedCorners
                   /\ isGoodDetection' = isGoodDetection]_vars

\* the corners were kept through a frame without a quad, at count 4
C10_Witness ==
    /\ cyclePc = "idle" /\ lastProcessTime = now /\ lastGoodDetectionTime < now
    /\ detectedCorners # Null /\ isGoodDetection
    /\ stableDetectionCount = 3 /\ consecutiveGoodDetections = 0

\* C11: after every cycle in which no 4-vertex candidate was found or the
\* candidate failed the quality check, isGoodDetection is false.
C11_FlagFalseAfterBadCycle ==
    [][(CycleEnds /\ ~FrameIsGood) => ~isGoodDetection']_vars

\* C11 as amended: after a cycle whose candidate failed the quality check
\* isGoodDetection is false; after a cycle without a candidate it is false
\* when stableDetectionCount was <= 3 before the cycle and keeps its value
\* (possibly true) when it was > 3.
C11_FlagAfterBadCycle ==
    /\ [][(CycleEnds /\ FrameHasQuad /\ ~FrameIsGood) => ~isGoodDetection']_vars
    /\ [][(CycleEnds /\ ~FrameHasQuad /\ stableDetectionCount <= 3)
            => ~isGoodDetection']_vars
    /\ [][(CycleEnds /\ ~FrameHasQuad /\ stableDetectionCount > 3)
            => isGoodDetection' = isGoodDetection]_vars

\* the flag is still set after a frame without a candidate, at count 5
C11_Witness ==
    /\ cyclePc = "idle" /\ lastProcessTime = now /\ lastGoodDetectionTime < now
    /\ mounted /\ isGoodDetection /\ detectedCorners # Null
    /\ stableDetectionCount = 4 /\ consecutiveGoodDetections = 0

\* What a rectification in progress still waits for: its effect, an image
\* load whose outcome is not known yet, or the delivery timer.
RectTaskPending ==
    rectPc \in {"mounted", "cropLoading", "perspectiveLoading", "completeTimer"}
Delivered == Len(completions') = Len(completions) + 1

\* C12: the scan flow never dead-ends in rectification: once processing has
\* started for a captured image, either a step of the pipeline is still to
\* come or onProcessingComplete has been invoked.
C12_NeverDeadEnds ==
    (step = "processing" /\ rectPc # "unmounted" /\ ~RectTaskPending)
        => completions # <<>>

\* C13: a crop step that could not acquire a drawing surface resolves to the
\* original image, a normalize step that could not resolves to the image it
\* was given, and a delivery made from the catch block (any delivery not made
\* by the timer) hands the original image to onProcessingComplete.
C13_StepReturnsInput ==
    /\ [][(rectPc = "cropLoading" /\ rectPc' \in {"perspectiveLoading", "done"}
             /\ missingSurface' # "none")
            => croppedImage' = capturedImage]_vars
    /\ [][(rectPc = "perspectiveLoading" /\ rectPc' = "completeTimer"
             /\ missingSurface' # "none")
            => correctedImage' = croppedImage]_vars
    /\ [][(Delivered /\ rectPc # "completeTimer")
            => (completions'[Len(completions')] = capturedImage
                /\ processedImage' = capturedImage)]_vars

\* the crop was delivered as it was: the output canvas had no 2d context
C13_Witness ==
    /\ rectPc = "done" /\ step = "preview" /\ missingSurface = "ctx"
    /\ croppedImage.kind = "cropped"
    /\ completions = <<croppedImage>> /\ processedImage = croppedImage

\* The bounding box of a set of points: least and greatest coordinates.
LeastOf(S) == CHOOSE m \in S : \A n \in S : m <= n
GreatestOf(S) == CHOOSE m \in S : \A n \in S : m >= n
CornerOrders == {[i \in 1..4 |-> documentCorners[f[i]]] : f \in Permutations(1..4)}

\* C16: a crop is exactly the axis-aligned bounding box of the 4 corners:
\* origin (minX, minY), width maxX - minX, height maxY - minY; it is 200 x 100
\* for the corners (50,50), (250,50), (250,150), (50,150); and every order of
\* the same 4 corners gives the same crop.
C16_CropIsBoundingBox ==
    (croppedImage.kind = "cropped" /\ Len(documentCorners) = 4)
      => LET P == {documentCorners[i] : i \in 1..4}
             xs == {q.x : q \in P}
             ys == {q.y : q \in P}
         IN /\ croppedImage.x = LeastOf(xs) /\ croppedImage.y = LeastOf(ys)
            /\ croppedImage.w = GreatestOf(xs) - LeastOf(xs)
            /\ croppedImage.h = GreatestOf(ys) - LeastOf(ys)
            /\ (P = {Pt(50, 50), Pt(250, 50), Pt(250, 150), Pt(50, 150)}
                  => (croppedImage.w = 200 /\ croppedImage.h = 100))
            /\ \A order \in CornerOrders :
                  CropResult(capturedImage, order, "none") = croppedImage

\* the corners of the 200 x 100 example in a scrambled order, cropped
C16_Witness ==
    /\ documentCorners = <<Pt(250, 150), Pt(50, 50), Pt(50, 150), Pt(250, 50)>>
    /\ croppedImage = Img("cropped", 50, 50, 200, 100, TRUE)
    /\ rectPc = "perspectiveLoading"

\* The function fn has been called and has returned.
Returned(fn) == called = fn /\ ret # <<>>

C15_AspectWithinRounding ==
    Returned("correctPerspective")
      => LET w == arg[1]
             h == arg[2]
         IN IF h > w
              THEN /\ ret[1].width = 1240
                   /\ 2 * ret[1].height * w - 2 * 1240 * h <= w
                   /\ 2 * 1240 * h - 2 * ret[1].height * w <= w
              ELSE /\ ret[1].height = 1240
                   /\ 2 * ret[1].width * h - 2 * 1240 * w <= h
                   /\ 2 * 1240 * w - 2 * ret[1].width * h <= h

\* a 7 x 3 landscape image: 1240 * 7 / 3 = 2893.33 becomes 2893
C15_Witness ==
    Returned("correctPerspective") /\ arg = <<7, 3>>
      /\ ret[1] = [width |-> 2893, height |-> 1240]

\* |width / height - num / den| < 3 / 10
RatioNear(width, height, num, den) ==
    /\ height > 0
    /\ 10 * (den * width - num * height) < 3 * den * height
    /\ 10 * (num * height - den * width) < 3 * den * height

\* C17: the evaluator returns a boolean for every input; it accepts a list
\* exactly when it is 4 points long, 0.1 < areaRatio < 0.9 (both strict),
\* aspectRatio is within 0.3 of 1/1.414 or of 1.414, and the quad is convex.
C17_AcceptIffAllThree ==
    Returned("evaluateDetectionQuality")
      => /\ ret[1] \in BOOLEAN
         /\ (Len(arg) # 4 => ret[1] = FALSE)
         /\ (Len(arg) = 4
               => LET area2 == calculateQuadrilateralArea2(arg)
                      frame2 == 2 * VideoWidth * VideoHeight
                      d == calculateQuadrilateralDimensions(arg)
                  IN ret[1] <=> /\ 10 * area2 > frame2
                             /\ 10 * area2 < 9 * frame2
                             /\ \/ RatioNear(d.width, d.height, 1000, 1414)
                                \/ RatioNear(d.width, d.height, 1414, 1000)
                             /\ isConvexQuadrilateral(arg))

\* a 420 x 432 rectangle (59% of the frame) is accepted
C17_Witness ==
    /\ Returned("evaluateDetectionQuality")
    /\ arg = <<Pt(0, 0), Pt(420, 0), Pt(420, 432), Pt(0, 432)>>
    /\ ret[1] = TRUE

\* The 4-vertex contours of a list whose area passes a floor test.
Eligible(contours, PassesFloor(_)) ==
    {i \in 1..Len(contours) :
        PassesFloor(contours[i].area) /\ Len(contours[i].approx) = 4}
NotBelowFloor(area) == 100 * area >= 2 * VideoWidth * VideoHeight
StrictlyAboveFloor(area) == 100 * area > 2 * VideoWidth * VideoHeight
SelectsLargestOf(eligible) ==
    IF eligible = {}
      THEN ret[1].index = 0 /\ ret[1].corners = Null
      ELSE /\ ret[1].index \in eligible
           /\ \A j \in eligible : arg[j].area <= arg[ret[1].index].area
           /\ Len(ret[1].corners) = 4

\* C18: the selector returns the candidate of maximum area among the
\* 4-vertex candidates whose area is not below 2% of the frame, and null
\* when there is none.
C18_SelectsLargestNotBelowFloor ==
    Returned("detectDocumentWithCV") => SelectsLargestOf(Eligible(arg, NotBelowFloor))

\* C18 as amended: the same, among the 4-vertex candidates whose area is
\* strictly above 2% of the frame; a candidate of exactly 2% is discarded.
C18_SelectsLargestAboveFloor ==
    Returned("detectDocumentWithCV") => SelectsLargestOf(Eligible(arg, StrictlyAboveFloor))

\* a quad of exactly 2% of the frame is passed over for a larger one behind it
C18_Witness ==
    /\ Returned("detectDocumentWithCV")
    /\ arg = <<[area |-> 6144, approx |-> ContourSmall],
               [area |-> 100000, approx |-> ContourPage \o <<Pt(320, 240)>>],
               [area |-> 6145, approx |-> ContourPage]>>
    /\ ret[1].index = 3

\* The cross product of the edges p -> q and q -> r.
EdgeCross(p, q, r) == (q.x - p.x) * (r.y - q.y) - (q.y - p.y) * (r.x - q.x)
EdgeCrosses(quad) ==
    {EdgeCross(quad[1], quad[2], quad[3]), EdgeCross(quad[2], quad[3], quad[4]),
     EdgeCross(quad[3], quad[4], quad[1]), EdgeCross(quad[4], quad[1], quad[2])}

\* C19: isConvex returns true exactly when the four consecutive edge cross
\* products are all positive or all negative; a zero cross product makes it
\* return false.
C19_TrueIffSameNonzeroSign ==
    Returned("isConvexQuadrilateral")
      => (ret[1] <=> \/ \A c \in EdgeCrosses(arg) : c > 0
                  \/ \A c \in EdgeCrosses(arg) : c < 0)

\* Axis-aligned rectangles of the grid, their perimeter listings (any
\* start, either direction) and their other listings (bowties).
GridRectangles ==
    {<<Pt(x1, y1), Pt(x2, y1), Pt(x2, y2), Pt(x1, y2)>> :
        x1 \in 0..GridMax, x2 \in 0..GridMax, y1 \in 0..GridMax, y2 \in 0..GridMax}
RectangleOf(quad) ==
    {r \in GridRectangles :
        /\ r[1].x < r[3].x /\ r[1].y < r[3].y
        /\ {quad[i] : i \in 1..4} = {r[i] : i \in 1..4}
        /\ Cardinality({quad[i] : i \in 1..4}) = 4}
PerimeterListings(r) ==
    {[i \in 1..4 |-> r[((i - 1 + k) % 4) + 1]] : k \in 0..3}
      \cup {[i \in 1..4 |-> r[((k + 4 - i) % 4) + 1]] : k \in 0..3}

\* C20: isConvex returns true for the vertices of an axis-aligned rectangle
\* listed in perimeter order from any vertex in either direction, and false
\* for every other (self-intersecting) listing of the same four vertices.
C20_RectangleAndBowtie ==
    Returned("isConvexQuadrilateral")
      => \A r \in RectangleOf(arg) :
            ret[1] <=> arg \in PerimeterListings(r)

\* a rectangle listed clockwise from its bottom-right vertex
C20_Witness ==
    /\ Returned("isConvexQuadrilateral")
    /\ arg = <<Pt(2, 1), Pt(0, 1), Pt(0, 0), Pt(2, 0)>>
    /\ ret[1] = TRUE


\* q listed in the order p: the list whose i-th point is q[p[i]]
Reordered(q, p) == [i \in 1..Len(q) |-> q[p[i]]]
IndexOrders == Permutations(1..4)
DistinctPoints(q) == Cardinality({q[i] : i \in 1..Len(q)}) = Len(q)

\* C21: for every 4-point input, in every order, the centroid / quadrant
\* ordering returns the 4 input points, each as often as it was given:
\* the output is a permutation of the input.
C21_OutputIsPermutation ==
    (Returned("sortCorners") /\ Len(arg) = 4)
      => \E p \in IndexOrders : ret[1] = Reordered(arg, p)

\* the corners of a square given diagonal first
C21_Witness ==
    /\ Returned("sortCorners")
    /\ arg = <<Pt(2, 2), Pt(0, 0), Pt(2, 0), Pt(0, 2)>>
    /\ ret[1] = <<Pt(0, 0), Pt(2, 0), Pt(2, 2), Pt(0, 2)>>

\* C22: for any 4 distinct points the centroid / quadrant ordering gives
\* the same output sequence whatever order the points are supplied in.
C22_PermutationInvariant ==
    (Returned("sortCorners") /\ Len(arg) = 4 /\ DistinctPoints(arg))
      => \A p \in IndexOrders : sortCorners(Reordered(arg, p)) = ret[1]

\* The quadrant of a point about the centre (sx / 4, sy / 4).
QuadrantAbout(pt, sx, sy) ==
    CASE 4 * pt.x < sx /\ 4 * pt.y < sy -> 0
      [] 4 * pt.x >= sx /\ 4 * pt.y < sy -> 1
      [] 4 * pt.x >= sx /\ 4 * pt.y >= sy -> 2
      [] 4 * pt.x < sx /\ 4 * pt.y >= sy -> 3

\* C23: the output of the centroid / quadrant ordering is sorted by
\* quadrant ascending and, within one quadrant, by descending distance
\* from the centroid.
C23_SortedByQuadrantThenDistance ==
    (Returned("sortCorners") /\ Len(arg) = 4)
      => LET sx == SumX(arg)
             sy == SumY(arg)
             out == ret[1]
         IN \A i \in 1..3 :
              \/ QuadrantAbout(out[i], sx, sy) < QuadrantAbout(out[i + 1], sx, sy)
              \/ /\ QuadrantAbout(out[i], sx, sy) = QuadrantAbout(out[i + 1], sx, sy)
                 /\ CentreDist2(out[i], sx, sy) >= CentreDist2(out[i + 1], sx, sy)

\* two corners in quadrant 2, the farther one first
C23_Witness ==
    /\ Returned("sortCorners")
    /\ arg = <<Pt(1, 1), Pt(2, 1), Pt(1, 0), Pt(0, 0)>>
    /\ ret[1] = <<Pt(0, 0), Pt(1, 0), Pt(2, 1), Pt(1, 1)>>

\* Four points are in strictly convex position when some listing of them
\* turns the same way at every vertex.
StrictlyConvexPosition(q) ==
    \E p \in IndexOrders : \A c \in EdgeCrosses(Reordered(q, p)) : c > 0

\* C24: for any 4 points in strictly convex position the output of the
\* centroid / quadrant ordering is in perimeter order, so isConvex of the
\* output is true.
C24_ConvexStaysConvex ==
    (Returned("sortCorners") /\ Len(arg) = 4 /\ StrictlyConvexPosition(arg))
      => isConvexQuadrilateral(ret[1])


\* One of the two top / bottom split orderings has returned.
SplitReturned == Returned("ImageProcessing.sortCorners") \/ Returned("utils.sortCorners")
PointsOf(q) == {q[i] : i \in 1..Len(q)}
TopOf(q) == {c \in PointsOf(q) : 4 * c.y < SumY(q)}
BottomOf(q) == {c \in PointsOf(q) : 4 * c.y >= SumY(q)}
Leftmost(c, S) == c \in S /\ \A d \in S : c.x <= d.x
Rightmost(c, S) == c \in S /\ \A d \in S : c.x >= d.x

\* C25: given any 4 points, the top / bottom split ordering returns exactly
\* those 4 points, assembled as [top[0], top[last], bottom[last], bottom[0]]:
\* the leftmost and rightmost point above the centroid, then the rightmost
\* and leftmost of the others, also when the split is not two and two.
\* Stated here for the corners of a proper quadrilateral (4 points in
\* strictly convex position), in any order.
C25_FourPointsAssembled ==
    (SplitReturned /\ Len(arg) = 4 /\ StrictlyConvexPosition(arg))
      => /\ Len(ret[1]) = 4
         /\ \E p \in IndexOrders : ret[1] = Reordered(arg, p)
         /\ Leftmost(ret[1][1], TopOf(arg))
         /\ Rightmost(ret[1][2], TopOf(arg))
         /\ Rightmost(ret[1][3], BottomOf(arg))
         /\ Leftmost(ret[1][4], BottomOf(arg))

\* A parallelogram none of whose sides is parallel to an axis, listed in
\* any order.
ObliqueParallelogram(q) ==
    /\ Len(q) = 4
    /\ \E p \in IndexOrders :
         LET r == Reordered(q, p)
         IN /\ \A c \in EdgeCrosses(r) : c > 0
            /\ r[1].x + r[3].x = r[2].x + r[4].x
            /\ r[1].y + r[3].y = r[2].y + r[4].y
            /\ \A i \in 1..4 : /\ r[i].x # r[(i % 4) + 1].x
                                /\ r[i].y # r[(i % 4) + 1].y

\* C26: for every non-axis-aligned parallelogram, in any input order, the
\* first two points of the top / bottom split ordering are two input points
\* and no other input point has a smaller y than either of them.
C26_TopTwoFirst ==
    (SplitReturned /\ ObliqueParallelogram(arg))
      => /\ Len(ret[1]) >= 2
         /\ \E p \in IndexOrders :
              /\ ret[1][1] = arg[p[1]] /\ ret[1][2] = arg[p[2]]
              /\ \A i \in {3, 4} : /\ arg[p[i]].y >= ret[1][1].y
                                     /\ arg[p[i]].y >= ret[1][2].y

\* C27: the centroid / quadrant ordering is idempotent: ordering its own
\* output of a 4-point input gives that output again.
C27_QuadrantIdempotent ==
    (Returned("sortCorners") /\ Len(arg) = 4) => sortCorners(ret[1]) = ret[1]

\* an input with two corners tied in quadrant 2, given out of order
C27_Witness ==
    /\ Returned("sortCorners")
    /\ arg = <<Pt(1, 2), Pt(0, 1), Pt(2, 1), Pt(1, 0)>>
    /\ ret[1] = <<Pt(1, 0), Pt(1, 2), Pt(2, 1), Pt(0, 1)>>

\* C28: the top / bottom split ordering is idempotent: ordering its own
\* output of a 4-point input gives that output again, also when two points
\* of a half share the same x. Stated here for the corners of a proper
\* quadrilateral (4 points in strictly convex position), in any order.
C28_SplitIdempotent ==
    /\ (Returned("ImageProcessing.sortCorners") /\ Len(arg) = 4
          /\ StrictlyConvexPosition(arg))
         => ImageProcessing_sortCorners(ret[1]) = ret[1]
    /\ (Returned("utils.sortCorners") /\ Len(arg) = 4 /\ StrictlyConvexPosition(arg))
         => Utils_sortCorners(ret[1]) = ret[1]

\* One of the three corner orderings has returned.
OrderingReturned == Returned("sortCorners") \/ SplitReturned

\* C29: every corner ordering returns its input, the same points in the
\* same order, when the input is not exactly 4 points long.
C29_OtherLengthUnchanged ==
    (OrderingReturned /\ Len(arg) # 4) => ret[1] = arg

\* a list of 5 points given to the exported ordering
C29_Witness ==
    /\ Returned("utils.sortCorners")
    /\ arg = <<Pt(2, 1), Pt(0, 0), Pt(2, 1), Pt(0, 0), Pt(0, 0)>>
    /\ ret[1] = arg

\* twice the shoelace sum of a 4-point list, written out
Shoelace4(q) ==
    (q[1].x * q[2].y - q[2].x * q[1].y) + (q[2].x * q[3].y - q[3].x * q[2].y)
      + (q[3].x * q[4].y - q[4].x * q[3].y) + (q[4].x * q[1].y - q[1].x * q[4].y)
Collinear(q) ==
    \A i, j, k \in 1..Len(q) :
        (q[j].x - q[i].x) * (q[k].y - q[i].y) = (q[j].y - q[i].y) * (q[k].x - q[i].x)
UnitSquare == <<Pt(0, 0), Pt(1, 0), Pt(1, 1), Pt(0, 1)>>
RotatedOnce(q) == <<q[2], q[3], q[4], q[1]>>
Reversed(q) == <<q[4], q[3], q[2], q[1]>>

\* C30: the area of a 4-point list is |shoelace sum| / 2 (the result
\* recorded is twice the area): never negative, 1 for the unit square, 0 for
\* 4 collinear points, unchanged by cyclic rotation and by reversal.
C30_ShoelaceArea ==
    Returned("calculateQuadrilateralArea")
      => /\ ret[1] = Abs(Shoelace4(arg))
         /\ ret[1] >= 0
         /\ (arg = UnitSquare => ret[1] = 2 * 1)
         /\ (Collinear(arg) => ret[1] = 0)
         /\ calculateQuadrilateralArea2(RotatedOnce(arg)) = ret[1]
         /\ calculateQuadrilateralArea2(Reversed(arg)) = ret[1]

\* the unit square listed against the direction of the example
C30_Witness ==
    /\ Returned("calculateQuadrilateralArea")
    /\ arg = Reversed(UnitSquare)
    /\ ret[1] = 2

\* C38: camera initialization is retried at most MAX_CAMERA_RETRIES times:
\* cameraInitRetries never exceeds 3, a retry is pending only in a state
\* with a camera error and with retries left, and after the third retry has
\* failed no retry is armed and the error is never cleared again.
C38_RetriesBounded ==
    /\ [](cameraInitRetries <= MAX_CAMERA_RETRIES)
    /\ [](retryTimer # "none"
            => cameraError /\ cameraInitRetries < MAX_CAMERA_RETRIES)
    /\ [][cameraInitRetries' # cameraInitRetries
            => (cameraError /\ retryTimer # "none"
                /\ cameraInitRetries' = cameraInitRetries + 1)]_vars
    /\ [][(cameraError /\ cameraInitRetries = MAX_CAMERA_RETRIES)
            => (cameraError' /\ retryTimer' = "none"
                /\ cameraInitRetries' = cameraInitRetries)]_vars

\* the start attempt of the third retry has failed: the error is shown and
\* nothing is armed
C38_Witness ==
    /\ mounted /\ cameraError /\ cameraInitRetries = MAX_CAMERA_RETRIES
    /\ retryTimer = "none" /\ startAttempt = "none"
    /\ now >= Epoch + MAX_CAMERA_RETRIES * RetryDelayMs

\* C33: wherever a trigger condition holds (consecutiveGoodDetections >= 3
\* or stableDetectionCount >= 10) detectedCorners is present, so the
\* auto-capture effect never latches autoCapturing on a render without
\* corners: every countdown it arms, and every countdown still pending,
\* holds 4 corners for handleCapture to deliver.
C33_TriggerHasCorners ==
    /\ [](ThresholdMet => detectedCorners # Null /\ Len(detectedCorners) = 4)
    /\ [](\A i \in 1..Len(captureTimers) : Len(captureTimers[i].corners) = 4)
    /\ [][(~autoCapturing /\ autoCapturing')
            => (TimerArmed /\ ThresholdMet' /\ detectedCorners' # Null
                /\ captureTimers'[Len(captureTimers')].corners = detectedCorners')]_vars

\* the stable count is still at the threshold after a frame without a quad:
\* the corners of the earlier frames were kept
C33_Witness ==
    /\ mounted /\ cyclePc = "idle" /\ lastProcessTime = now
    /\ lastGoodDetectionTime < now
    /\ consecutiveGoodDetections = 0 /\ stableDetectionCount >= StableThreshold
    /\ detectedCorners # Null

\* C34: detectedCorners is always absent or exactly 4 points, every capture
\* the camera delivers hands exactly 4 corners to the processing step, and
\* no capture is delivered while detectedCorners is absent.
C34_CapturesHaveCurrentCorners ==
    /\ [](detectedCorners = Null \/ Len(detectedCorners) = 4)
    /\ [](\A i \in 1..Len(captures) : Len(captures[i].corners) = 4)
    /\ [](documentCorners = Null \/ Len(documentCorners) = 4)
    /\ [][Len(captures') > Len(captures) => detectedCorners # Null]_vars

\* C31: with vision-backed detection, from a reset tracker (mount or
\* toggleAutoMode) the auto-capture trigger never fires before 3 good
\* samples have been observed since the reset: with fewer, in any
\* interleaving with bad samples, neither threshold is met.
C31_NoTriggerBeforeThreeGoods ==
    /\ [](goodsSinceReset < 3
            => consecutiveGoodDetections < 3 /\ stableDetectionCount < 10)
    /\ [](consecutiveGoodDetections <= goodsSinceReset \/ goodsSinceReset = 3)
    /\ [][(~autoCapturing /\ autoCapturing') => goodsSinceReset' >= 3]_vars

\* the trigger fired on the third good sample after a reset that followed
\* earlier good samples
C31_Witness ==
    /\ autoCapturing /\ captureTimers # <<>>
    /\ goodsSinceReset = 3 /\ consecutiveGoodDetections = 3
    /\ stableDetectionCount = 3 /\ goodRun > 3

\* C35: consecutiveGoodDetections = k with k >= 2 implies that the k most
\* recent samples were all good and each of the last k-1 arrived less than
\* 300 ms after the one before it; the first good sample after a bad one
\* always yields 1.
C35_ConsecutiveIsRecentRun ==
    /\ [](consecutiveGoodDetections >= 2 => goodRun >= consecutiveGoodDetections)
    /\ [][(CycleEnds /\ FrameIsGood /\ goodRun = 0)
            => consecutiveGoodDetections' = 1]_vars

\* three good samples in quick succession after a slower start
C35_Witness ==
    /\ cyclePc = "idle" /\ consecutiveGoodDetections = 3 /\ goodRun = 3
    /\ stableDetectionCount = 5 /\ lastGoodDetectionTime = now

\* C32: the two trigger paths are independent.  A good sample 300 ms or more
\* after the previous sample leaves consecutiveGoodDetections at 1, and the
\* tenth of a run of such samples, with no countdown triggered before, fires
\* auto-capture through stableDetectionCount >= 10 (the 300 ms countdown);
\* a countdown armed in a state that meets both thresholds is the one of the
\* consecutive path (200 ms).
C32_TwoTriggerPaths ==
    /\ [][(CycleEnds /\ FrameIsGood /\ sampleGap >= 300)
            => consecutiveGoodDetections' = 1]_vars
    /\ [][(CycleEnds /\ FrameIsGood /\ sampleGap >= 300 /\ autoMode
            /\ ~autoCapturing /\ stableDetectionCount = 9)
            => (TimerArmed /\ stableDetectionCount' = 10
                /\ captureTimers'[Len(captureTimers')].delay = 300)]_vars
    /\ [][TimerArmed
            => IF consecutiveGoodDetections' >= 3
                 THEN captureTimers'[Len(captureTimers')].delay = 200
                 ELSE /\ stableDetectionCount' >= 10
                      /\ captureTimers'[Len(captureTimers')].delay = 300]_vars

\* the tenth good sample of a slow run has armed the 300 ms countdown
C32_Witness ==
    /\ autoCapturing /\ Len(captureTimers) = 1 /\ captureTimers[1].delay = 300
    /\ consecutiveGoodDetections = 1 /\ goodRun = 1
    /\ stableDetectionCount = 10 /\ lastGoodDetectionTime = now

\* C36: the wizard never shows a blank step: in the processing step
\* capturedImage and documentCorners are set, in the preview step
\* processedImage is set, whatever the order of capture, completion and reset
\* callbacks, late ones included.
C36_NoBlankStep ==
    /\ (step = "processing" => capturedImage # NoImage /\ documentCorners # Null)
    /\ (step = "preview" => processedImage # NoImage)

\* after a reset a run of the previous scan has delivered: the preview shows
\* its image while the captured image is cleared
C36_Witness ==
    /\ step = "preview" /\ processedImage # NoImage
    /\ capturedImage = NoImage /\ documentCorners = Null

\* C37: a camera error reported to the page sets its cameraError and
\* useFallback and leaves step, capturedImage, processedImage and
\* documentCorners as they were.
C37_CameraErrorFrame ==
    [][(~cameraError /\ cameraError')
         => (pageCameraError' /\ useFallback'
             /\ UNCHANGED <<step, capturedImage, processedImage, documentCorners>>)]_vars

\* the camera of a second scan failed: the fallback is shown in the camera
\* step
C37_Witness ==
    /\ step = "camera" /\ pageCameraError /\ useFallback /\ cameraError
    /\ ~mounted /\ Len(completions) >= 1

====
